---- MODULE Spec2Model ----
(***************************************************************************)
(* Model of the ingestion pipeline (src/unnamed/part_003, the workbook     *)
(* parser), the counterparty reconciliation engine and the source reducer  *)
(* (src/src/context/AppContext.tsx) and the source loader                  *)
(* (src/unnamed/part_000, FileUpload).                                     *)
(*                                                                         *)
(* Text.  A JavaScript string is a sequence of characters; a character is  *)
(* a TLA+ string naming it.  Cyrillic letters are named by their Latin     *)
(* transliteration, capital letters in upper case ("I" "v" "a" "n" "o" "v" *)
(* is the word Ivanov in Cyrillic); Latin letters carry the prefix lat     *)
(* ("latL" "latL" "latC" is LLC); "No" is the numero sign; digits, blanks  *)
(* and punctuation name themselves.                                        *)
(***************************************************************************)
EXTENDS Integers, Sequences, FiniteSets, TLC

VARIABLES
    sources,          \* AppState.sources: the list of DataSource records
    pending,          \* loads started by addSource and not yet settled
    globalId,         \* module-level counter of nextId (parser)
    sourceIdCounter,  \* module-level counter of addSource (FileUpload)
    now,              \* the wall clock read by Date.now()
    filters,          \* AppState.filters
    call,             \* function-level specifications: the call being made
    ret               \* function-level specifications: what it returned

vars == <<sources, pending, globalId, sourceIdCounter, now, filters, call, ret>>

(***************************************************************************)
(* Generic helpers                                                         *)
(***************************************************************************)
Range(f) == {f[i] : i \in DOMAIN f}

Min(S) == CHOOSE x \in S : \A y \in S : x <= y

Max(S) == CHOOSE x \in S : \A y \in S : x >= y

\* seq.map(f) is written [i \in DOMAIN seq |-> f(seq[i])] in place.

\* Array.prototype.slice(0, n)
Take(seq, n) == SubSeq(seq, 1, IF n < Len(seq) THEN n ELSE Len(seq))

(***************************************************************************)
(* Characters                                                              *)
(***************************************************************************)
\* <<lower, upper>> for every letter with a case: the 33 Cyrillic letters and
\* the 26 Latin ones (String.prototype.toUpperCase / toLowerCase).
CasePairs ==
    << <<"a", "A">>, <<"b", "B">>, <<"v", "V">>, <<"g", "G">>, <<"d", "D">>,
       <<"e", "E">>, <<"yo", "YO">>, <<"zh", "ZH">>, <<"z", "Z">>, <<"i", "I">>,
       <<"j", "J">>, <<"k", "K">>, <<"l", "L">>, <<"m", "M">>, <<"n", "N">>,
       <<"o", "O">>, <<"p", "P">>, <<"r", "R">>, <<"s", "S">>, <<"t", "T">>,
       <<"u", "U">>, <<"f", "F">>, <<"h", "H">>, <<"c", "C">>, <<"ch", "CH">>,
       <<"sh", "SH">>, <<"sch", "SCH">>, <<"hs", "HS">>, <<"y", "Y">>,
       <<"ss", "SS">>, <<"eh", "EH">>, <<"yu", "YU">>, <<"ya", "YA">>,
       <<"lata", "latA">>, <<"latb", "latB">>, <<"latc", "latC">>,
       <<"latd", "latD">>, <<"late", "latE">>, <<"latf", "latF">>,
       <<"latg", "latG">>, <<"lath", "latH">>, <<"lati", "latI">>,
       <<"latj", "latJ">>, <<"latk", "latK">>, <<"latl", "latL">>,
       <<"latm", "latM">>, <<"latn", "latN">>, <<"lato", "latO">>,
       <<"latp", "latP">>, <<"latq", "latQ">>, <<"latr", "latR">>,
       <<"lats", "latS">>, <<"latt", "latT">>, <<"latu", "latU">>,
       <<"latv", "latV">>, <<"latw", "latW">>, <<"latx", "latX">>,
       <<"laty", "latY">>, <<"latz", "latZ">> >>

UpperMap ==
    [c \in {p[1] : p \in Range(CasePairs)} |->
        (CHOOSE p \in Range(CasePairs) : p[1] = c)[2]]

LowerMap ==
    [c \in {p[2] : p \in Range(CasePairs)} |->
        (CHOOSE p \in Range(CasePairs) : p[2] = c)[1]]

Digits == {"0", "1", "2", "3", "4", "5", "6", "7", "8", "9"}

\* the characters matched by \s and removed by String.prototype.trim
WhiteSpace == {" ", "\t", "\n", "\r"}

(***************************************************************************)
(* Strings                                                                 *)
(***************************************************************************)
toUpperCase(s) ==
    [i \in 1..Len(s) |-> IF s[i] \in DOMAIN UpperMap THEN UpperMap[s[i]] ELSE s[i]]

toLowerCase(s) ==
    [i \in 1..Len(s) |-> IF s[i] \in DOMAIN LowerMap THEN LowerMap[s[i]] ELSE s[i]]

\* String.prototype.trim
trim(s) ==
    LET keep == {i \in 1..Len(s) : s[i] \notin WhiteSpace}
    IN  IF keep = {} THEN <<>> ELSE SubSeq(s, Min(keep), Max(keep))

\* does p occur in s at the 0-based position i
occursAt(s, p, i) ==
    /\ i >= 0
    /\ i + Len(p) <= Len(s)
    /\ SubSeq(s, i + 1, i + Len(p)) = p

\* String.prototype.indexOf: the first 0-based position of p in s, or -1
indexOf(s, p) ==
    LET hits == {i \in 0..(Len(s) - Len(p)) : occursAt(s, p, i)}
    IN  IF hits = {} THEN -1 ELSE Min(hits)

\* String.prototype.includes
includes(s, p) == \E i \in 0..(Len(s) - Len(p)) : occursAt(s, p, i)

\* String.prototype.startsWith
startsWith(s, p) == occursAt(s, p, 0)

RECURSIVE splitAcc(_, _, _, _)
splitAcc(s, seps, i, cur) ==
    IF i > Len(s)
    THEN IF cur = <<>> THEN <<>> ELSE <<cur>>
    ELSE IF s[i] \in seps
         THEN (IF cur = <<>> THEN <<>> ELSE <<cur>>) \o splitAcc(s, seps, i + 1, <<>>)
         ELSE splitAcc(s, seps, i + 1, Append(cur, s[i]))

\* s.split(<one or more characters of seps>).filter(Boolean): the maximal
\* runs of characters that are not separators
splitNonEmpty(s, seps) == splitAcc(s, seps, 1, <<>>)

RECURSIVE join(_, _)
\* Array.prototype.join
join(parts, sep) ==
    IF parts = <<>> THEN <<>>
    ELSE IF Len(parts) = 1 THEN parts[1]
    ELSE parts[1] \o sep \o join(Tail(parts), sep)

(***************************************************************************)
(* cleanCounterparty (AppContext.tsx)                                      *)
(***************************************************************************)
engToRus ==
    << <<"latA", "A">>, <<"latB", "V">>, <<"latC", "S">>, <<"latE", "E">>,
       <<"latH", "N">>, <<"latK", "K">>, <<"latM", "M">>, <<"latO", "O">>,
       <<"latP", "R">>, <<"latT", "T">>, <<"latX", "H">>, <<"latV", "V">>,
       <<"lata", "a">>, <<"latc", "s">>, <<"late", "e">>, <<"lato", "o">>,
       <<"latp", "r">>, <<"latx", "h">>, <<"latv", "v">> >>

engToRusMap ==
    [c \in {p[1] : p \in Range(engToRus)} |->
        (CHOOSE p \in Range(engToRus) : p[1] = c)[2]]

\* Array.from(s).map(ch => engToRus[ch] ?? ch).join('')
foldHomographs(s) ==
    [i \in 1..Len(s) |-> IF s[i] \in DOMAIN engToRusMap THEN engToRusMap[s[i]] ELSE s[i]]

orgMarkers ==
    << <<"O", "O", "O">>, <<"O", "A", "O">>, <<"Z", "A", "O">>, <<"P", "A", "O">>,
       <<"A", "O">>, <<"I", "P">>, <<"N", "K", "O">>, <<"N", "A", "O">>,
       <<"G", "B", "U", "Z">>, <<"G", "U", "P">>, <<"M", "U", "P">>,
       <<"F", "G", "U", "P">>, <<"B", "A", "N", "K">>,
       <<"latL", "latL", "latC">>, <<"latL", "latT", "latD">>,
       <<"latI", "latN", "latC">> >>

operationMarkers ==
    << <<"S", "P", "I", "S", "A", "N", "I", "E">>,
       <<"P", "O", "S", "T", "U", "P", "L", "E", "N", "I", "E">>,
       <<"O", "P", "L", "A", "T", "A">>,
       <<"P", "E", "R", "E", "V", "O", "D">>,
       <<"V", "O", "Z", "V", "R", "A", "T">> >>

stopPhrases ==
    << <<"B", "E", "Z", " ", "D", "O", "G", "O", "V", "O", "R", "A">>,
       <<"O", "S", "N", "O", "V", "N", "O", "J", " ", "D", "O", "G", "O", "V", "O", "R">>,
       <<"S", "O", "G", "L", "A", "SH", "E", "N", "I", "E">>,
       <<"S", "P", "I", "S", "A", "N", "I", "E">>,
       <<"P", "O", "S", "T", "U", "P", "L", "E", "N", "I", "E">>,
       <<"O", "P", "L", "A", "T", "A">>,
       <<"P", "E", "R", "E", "V", "O", "D">>,
       <<"V", "O", "Z", "V", "R", "A", "T">>,
       <<"D", "O", "G", "O", "V", "O", "R", " ", "No">>,
       <<"D", "O", "G", "O", "V", "O", "R", " ", "latN">>,
       <<"D", "O", "G", "O", "V", "O", "R", " ">>,
       <<"S", "CH", "E", "T", " ", "No">>,
       <<"S", "CH", "YO", "T", " ", "No">>,
       <<"A", "K", "T", " ">>,
       <<"U", "P", "D", " ">>,
       <<"N", "A", "K", "L", "A", "D", "N", "A", "YA">>,
       <<"P", "O", "S", "T", "U", "P", "L", "E", "N", "I", "E", " ", "(", "A", "K", "T">>,
       <<" ", "O", "T", " ">> >>

orgForms ==
    << <<"K", "O", "L", "L", "E", "G", "I", "YA", " ", "A", "D", "V", "O", "K", "A", "T", "O", "V">>,
       <<"A", "D", "V", "O", "K", "A", "T", "S", "K", "O", "E", " ", "B", "YU", "R", "O">>,
       <<"A", "D", "V", "O", "K", "A", "T", "S", "K", "A", "YA", " ", "K", "O", "N", "T", "O", "R", "A">>,
       <<"U", "P", "R", "A", "V", "L", "YA", "YU", "SCH", "A", "YA", " ", "K", "O", "M", "P", "A", "N", "I", "YA">>,
       <<"S", "T", "R", "A", "H", "O", "V", "A", "YA", " ", "K", "O", "M", "P", "A", "N", "I", "YA">>,
       <<"O", "O", "O">>, <<"O", "A", "O">>, <<"Z", "A", "O">>, <<"P", "A", "O">>,
       <<"A", "O">>, <<"N", "K", "O">>, <<"N", "A", "O">>, <<"B", "A", "N", "K">>,
       <<"I", "P">>, <<"G", "B", "U", "Z">>, <<"G", "B", "U">>, <<"M", "U", "P">>,
       <<"G", "U", "P">>, <<"F", "G", "U", "P">>, <<"K", "F", "H">>,
       <<"F", "B", "U", "Z">> >>

\* s.split(/\r?\n/).map(part => part.trim()).filter(Boolean): a carriage
\* return before the line feed is white space that trim removes
splitLines(s) ==
    LET parts == splitNonEmpty(s, {"\n"})
        trimmed == [i \in DOMAIN parts |-> trim(parts[i])]
    IN  SelectSeq(trimmed, LAMBDA l : l # <<>>)

\* lines 20-36: the line of a multi-line value to go on with
selectLine(s) ==
    LET lines == splitLines(s)
        orgLike == {i \in DOMAIN lines :
                       \E m \in Range(orgMarkers) : includes(toUpperCase(lines[i]), m)}
        nonOperation == {i \in DOMAIN lines :
                       ~ \E m \in Range(operationMarkers) :
                             startsWith(toUpperCase(lines[i]), m)}
    IN  IF lines = <<>> THEN s
        ELSE IF orgLike # {} THEN lines[Min(orgLike)]
        ELSE IF nonOperation # {} THEN lines[Min(nonOperation)]
        ELSE lines[1]

\* lines 49-55: the loop over stopPhrases; indexOf gives the first occurrence
\* of a phrase, which counts only when it is not at position 0
cutPosOf(upper) ==
    LET found == {indexOf(upper, stopPhrases[k]) : k \in DOMAIN stopPhrases}
        positive == {idx \in found : idx > 0}
    IN  IF positive = {} THEN Len(upper) ELSE Min(positive)

\* lines 38-59
truncateAtStop(s) ==
    LET upper == toUpperCase(s)
        cutPos == cutPosOf(upper)
    IN  IF cutPos < Len(upper) THEN trim(SubSeq(s, 1, cutPos)) ELSE s

TrailingJunk == WhiteSpace \cup {",", ";", ".", "-"}

\* line 61: s.replace(/[\s,;.-]+$/, '').trim()
stripTrailing(s) ==
    LET keep == {i \in 1..Len(s) : s[i] \notin TrailingJunk}
    IN  IF keep = {} THEN <<>> ELSE trim(SubSeq(s, 1, Max(keep)))

\* the number of words a name without organizational form keeps (line 79-80)
PersonWords == 3

\* the mutant of cleanTail: the cap of three words is not applied
cleanTailNoCap(s) == s

\* lines 62-80: an organization keeps its full name, a person three words
cleanTail(s) ==
    IF s = <<>> THEN <<>>
    ELSE IF \E form \in Range(orgForms) : includes(toUpperCase(s), form) THEN s
    ELSE LET words == splitNonEmpty(s, WhiteSpace)
         IN  IF Len(words) <= PersonWords THEN join(words, <<" ">>)
             ELSE join(SubSeq(words, 1, PersonWords), <<" ">>)

\* the string cleanCounterparty holds after line 61
cleanHead(raw) == stripTrailing(truncateAtStop(selectLine(foldHomographs(trim(raw)))))

cleanCounterparty(raw) ==
    IF raw = <<>> THEN <<>>
    ELSE IF trim(raw) = <<>> THEN <<>>
    ELSE cleanTail(cleanHead(raw))

(***************************************************************************)
(* Counterparty matching keys (AppContext.tsx)                             *)
(***************************************************************************)
\* line 87: the characters of /["<<>>']/g, removed from the key
QuoteChars == {"\"", "<<", ">>", "'"}

\* line 88: the characters of /[.,;:()]/g, replaced by a blank
KeyPunctuation == {".", ",", ";", ":", "(", ")"}

normalizeCounterpartyForMatch(raw) ==
    LET lower == toLowerCase(raw)
        unquoted == SelectSeq(lower, LAMBDA c : c \notin QuoteChars)
    IN  join(splitNonEmpty(unquoted, WhiteSpace \cup KeyPunctuation), <<" ">>)

ORG_PREFIXES ==
    << <<"o", "o", "o">>, <<"o", "a", "o">>, <<"z", "a", "o">>, <<"p", "a", "o">>,
       <<"a", "o">>, <<"i", "p">>, <<"n", "k", "o">>, <<"n", "a", "o">>,
       <<"f", "b", "u", "z">>, <<"g", "b", "u", "z">>, <<"f", "g", "u", "p">>,
       <<"g", "u", "p">>, <<"m", "u", "p">>, <<"k", "f", "h">>,
       <<"b", "a", "n", "k">> >>

RECURSIVE dropOrgPrefix(_)
\* lines 100-104: the while loop over the leading parts
dropOrgPrefix(parts) ==
    IF parts # <<>> /\ Head(parts) \in Range(ORG_PREFIXES)
    THEN dropOrgPrefix(Tail(parts))
    ELSE parts

stripOrgPrefix(normalized) ==
    trim(join(dropOrgPrefix(splitNonEmpty(normalized, {" "})), <<" ">>))

stripOrgTokens(normalized) ==
    trim(join(SelectSeq(splitNonEmpty(normalized, {" "}),
                        LAMBDA token : token \notin Range(ORG_PREFIXES)), <<" ">>))

\* i, v, po, na, dlya, ot, s, k (lines 119-122, with ORG_PREFIXES)
stopTokens ==
    Range(ORG_PREFIXES) \cup
    { <<"i">>, <<"v">>, <<"p", "o">>, <<"n", "a">>, <<"d", "l", "ya">>,
      <<"o", "t">>, <<"s">>, <<"k">> }

\* the characters of /^[a-z<cyrillic a-ya><yo>-]+$/i (line 131)
SignatureChars == DOMAIN UpperMap \cup DOMAIN LowerMap \cup {"-"}

\* the characters a signature token can hold, by UTF-16 code unit
CodeOrder ==
    <<"-",
      "latA", "latB", "latC", "latD", "latE", "latF", "latG", "latH", "latI",
      "latJ", "latK", "latL", "latM", "latN", "latO", "latP", "latQ", "latR",
      "latS", "latT", "latU", "latV", "latW", "latX", "latY", "latZ",
      "lata", "latb", "latc", "latd", "late", "latf", "latg", "lath", "lati",
      "latj", "latk", "latl", "latm", "latn", "lato", "latp", "latq", "latr",
      "lats", "latt", "latu", "latv", "latw", "latx", "laty", "latz",
      "YO",
      "A", "B", "V", "G", "D", "E", "ZH", "Z", "I", "J", "K", "L", "M", "N", "O",
      "P", "R", "S", "T", "U", "F", "H", "C", "CH", "SH", "SCH", "HS", "Y", "SS",
      "EH", "YU", "YA",
      "a", "b", "v", "g", "d", "e", "zh", "z", "i", "j", "k", "l", "m", "n", "o",
      "p", "r", "s", "t", "u", "f", "h", "c", "ch", "sh", "sch", "hs", "y", "ss",
      "eh", "yu", "ya",
      "yo">>

codeOf == [c \in Range(CodeOrder) |-> CHOOSE i \in DOMAIN CodeOrder : CodeOrder[i] = c]

RECURSIVE lessOrEqual(_, _)
\* the order Array.prototype.sort gives strings: by code unit, a prefix first
lessOrEqual(a, b) ==
    IF a = <<>> THEN TRUE
    ELSE IF b = <<>> THEN FALSE
    ELSE IF Head(a) = Head(b) THEN lessOrEqual(Tail(a), Tail(b))
    ELSE codeOf[Head(a)] < codeOf[Head(b)]

RECURSIVE insertSorted(_, _)
insertSorted(sorted, t) ==
    IF sorted = <<>> THEN <<t>>
    ELSE IF lessOrEqual(Head(sorted), t)
         THEN <<Head(sorted)>> \o insertSorted(Tail(sorted), t)
         ELSE <<t>> \o sorted

RECURSIVE sort(_)
\* Array.prototype.sort with the default comparison
sort(tokens) ==
    IF tokens = <<>> THEN <<>>
    ELSE insertSorted(sort(SubSeq(tokens, 1, Len(tokens) - 1)), tokens[Len(tokens)])

buildTokenSignature(normalized) ==
    IF normalized = <<>> THEN <<>>
    ELSE LET parts == splitNonEmpty(normalized, {" "})
             trimmed == SelectSeq([i \in DOMAIN parts |-> trim(parts[i])],
                                  LAMBDA t : t # <<>>)
             tokens == SelectSeq(trimmed, LAMBDA t :
                           /\ t \notin stopTokens
                           /\ Len(t) >= 2
                           /\ \A i \in DOMAIN t : t[i] \notin Digits
                           /\ \A i \in DOMAIN t : t[i] \in SignatureChars)
         IN  join(sort(tokens), <<"|">>)

(***************************************************************************)
(* The counterparty dictionary and the resolver (AppContext.tsx)           *)
(***************************************************************************)
emptyDictionary ==
    [exactMap |-> <<>>, tokenMap |-> <<>>, hasReferences |-> FALSE]

\* the mutant of setIfAbsent: a later entry overwrites an earlier one
setAlways(map, key, value) ==
    IF key # <<>>
    THEN [k \in DOMAIN map \cup {key} |-> IF k = key THEN value ELSE map[k]]
    ELSE map

\* Map.prototype.set on a key the map does not hold yet (lines 270-284):
\* if (key && !map.has(key)) map.set(key, value)
setIfAbsent(map, key, value) ==
    IF key # <<>> /\ key \notin DOMAIN map
    THEN [k \in DOMAIN map \cup {key} |-> IF k = key THEN value ELSE map[k]]
    ELSE map

\* lines 258-285: the body of the loop over the counterparties of a source
addCounterparty(dictionary, cp) ==
    LET displayName == trim(cp.name)
        cleaned == cleanCounterparty(displayName)
        normalized == normalizeCounterpartyForMatch(cleaned)
        stripped == stripOrgPrefix(normalized)
        compactOrgAgnostic == stripOrgTokens(normalized)
        signature == buildTokenSignature(
            IF compactOrgAgnostic # <<>> THEN compactOrgAgnostic
            ELSE IF stripped # <<>> THEN stripped ELSE normalized)
        exact1 == setIfAbsent(dictionary.exactMap, normalized, displayName)
        exact2 == setIfAbsent(exact1, stripped, displayName)
        exact3 == setIfAbsent(exact2, compactOrgAgnostic, displayName)
    IN  IF displayName = <<>> THEN dictionary
        ELSE [exactMap |-> exact3,
              tokenMap |-> setIfAbsent(dictionary.tokenMap, signature, displayName),
              hasReferences |-> TRUE]

RECURSIVE addCounterparties(_, _)
addCounterparties(dictionary, cps) ==
    IF cps = <<>> THEN dictionary
    ELSE addCounterparties(addCounterparty(dictionary, Head(cps)), Tail(cps))

RECURSIVE addSources(_, _)
addSources(dictionary, srcs) ==
    IF srcs = <<>> THEN dictionary
    ELSE addSources(addCounterparties(dictionary, Head(srcs).counterparties), Tail(srcs))

\* sources.filter(s => s.status === 'ready')
readySources(srcs) == SelectSeq(srcs, LAMBDA s : s.status = "ready")

\* the mutant of buildCounterpartyDictionary: the ready sources are walked
\* from the last listed to the first
buildDictionaryLastListedFirst(srcs) ==
    LET ready == readySources(srcs)
    IN  addSources(emptyDictionary, [i \in DOMAIN ready |-> ready[Len(ready) + 1 - i]])

buildCounterpartyDictionary(srcs) == addSources(emptyDictionary, readySources(srcs))

\* net v spravochnike: "not in the dictionary" (line 321)
Sentinel ==
    <<"n", "e", "t", " ", "v", " ", "s", "p", "r", "a", "v", "o", "ch", "n", "i", "k", "e">>

\* the mutant of resolveCounterpartyName: the check of hasReferences is missing
resolveNoReferenceCheck(rawCounterparty, dictionary) ==
    LET raw == trim(rawCounterparty)
        cleaned == cleanCounterparty(raw)
        normalizedTx == normalizeCounterpartyForMatch(cleaned)
        strippedTx == stripOrgPrefix(normalizedTx)
        compactOrgAgnosticTx == stripOrgTokens(normalizedTx)
        signature == buildTokenSignature(
            IF compactOrgAgnosticTx # <<>> THEN compactOrgAgnosticTx
            ELSE IF strippedTx # <<>> THEN strippedTx ELSE normalizedTx)
    IN  IF raw = <<>> THEN <<>>
        ELSE IF normalizedTx \in DOMAIN dictionary.exactMap
             THEN dictionary.exactMap[normalizedTx]
        ELSE IF strippedTx \in DOMAIN dictionary.exactMap
             THEN dictionary.exactMap[strippedTx]
        ELSE IF compactOrgAgnosticTx \in DOMAIN dictionary.exactMap
             THEN dictionary.exactMap[compactOrgAgnosticTx]
        ELSE IF signature # <<>> /\ signature \in DOMAIN dictionary.tokenMap
             THEN dictionary.tokenMap[signature]
        ELSE Sentinel

\* the mutant of resolveCounterpartyName: the early return for an empty raw
\* value is missing
resolveNoEmptyCheck(rawCounterparty, dictionary) ==
    LET cleaned == cleanCounterparty(trim(rawCounterparty))
        normalizedTx == normalizeCounterpartyForMatch(cleaned)
    IN  IF normalizedTx \in DOMAIN dictionary.exactMap
        THEN dictionary.exactMap[normalizedTx]
        ELSE IF ~dictionary.hasReferences THEN cleaned
        ELSE Sentinel

\* the mutant of resolveCounterpartyName: the prefix-stripped key is looked
\* up before the normalized one
resolveStrippedFirst(rawCounterparty, dictionary) ==
    LET raw == trim(rawCounterparty)
        cleaned == cleanCounterparty(raw)
        normalizedTx == normalizeCounterpartyForMatch(cleaned)
        strippedTx == stripOrgPrefix(normalizedTx)
        compactOrgAgnosticTx == stripOrgTokens(normalizedTx)
        signature == buildTokenSignature(
            IF compactOrgAgnosticTx # <<>> THEN compactOrgAgnosticTx
            ELSE IF strippedTx # <<>> THEN strippedTx ELSE normalizedTx)
    IN  IF raw = <<>> THEN <<>>
        ELSE IF strippedTx \in DOMAIN dictionary.exactMap
             THEN dictionary.exactMap[strippedTx]
        ELSE IF normalizedTx \in DOMAIN dictionary.exactMap
             THEN dictionary.exactMap[normalizedTx]
        ELSE IF compactOrgAgnosticTx \in DOMAIN dictionary.exactMap
             THEN dictionary.exactMap[compactOrgAgnosticTx]
        ELSE IF signature # <<>> /\ signature \in DOMAIN dictionary.tokenMap
             THEN dictionary.tokenMap[signature]
        ELSE IF ~dictionary.hasReferences THEN cleaned
        ELSE Sentinel

resolveCounterpartyName(rawCounterparty, dictionary) ==
    LET raw == trim(rawCounterparty)
        cleaned == cleanCounterparty(raw)
        normalizedTx == normalizeCounterpartyForMatch(cleaned)
        strippedTx == stripOrgPrefix(normalizedTx)
        compactOrgAgnosticTx == stripOrgTokens(normalizedTx)
        signature == buildTokenSignature(
            IF compactOrgAgnosticTx # <<>> THEN compactOrgAgnosticTx
            ELSE IF strippedTx # <<>> THEN strippedTx ELSE normalizedTx)
    IN  IF raw = <<>> THEN <<>>
        ELSE IF normalizedTx \in DOMAIN dictionary.exactMap
             THEN dictionary.exactMap[normalizedTx]
        ELSE IF strippedTx \in DOMAIN dictionary.exactMap
             THEN dictionary.exactMap[strippedTx]
        ELSE IF compactOrgAgnosticTx \in DOMAIN dictionary.exactMap
             THEN dictionary.exactMap[compactOrgAgnosticTx]
        ELSE IF signature # <<>> /\ signature \in DOMAIN dictionary.tokenMap
             THEN dictionary.tokenMap[signature]
        ELSE IF ~dictionary.hasReferences THEN cleaned
        ELSE Sentinel

(***************************************************************************)
(* getDirection (part_003, the parser)                                     *)
(***************************************************************************)
\* postuplenie: "receipt" (line 469)
GroupIn == <<"p", "o", "s", "t", "u", "p", "l", "e", "n", "i", "e">>

\* vybytie: "disbursement" (line 470)
GroupOut == <<"v", "y", "b", "y", "t", "i", "e">>

\* postupleni, dohod, vklad, polucheni (line 475)
incomeKeywords ==
    { <<"p", "o", "s", "t", "u", "p", "l", "e", "n", "i">>,
      <<"d", "o", "h", "o", "d">>,
      <<"v", "k", "l", "a", "d">>,
      <<"p", "o", "l", "u", "ch", "e", "n", "i">> }

\* the mutant of getDirection: the article list is not consulted
getDirectionByNameOnly(article, articlesRef) ==
    IF article = <<>> THEN "out"
    ELSE IF \E kw \in incomeKeywords : includes(toLowerCase(article), kw) THEN "in"
    ELSE "out"

getDirection(article, articlesRef) ==
    LET hits == {i \in DOMAIN articlesRef :
                    trim(toLowerCase(articlesRef[i].name)) = trim(toLowerCase(article))}
        group == IF hits = {} THEN <<>> ELSE toLowerCase(articlesRef[Min(hits)].group)
        lower == toLowerCase(article)
    IN  IF article = <<>> THEN "out"
        ELSE IF hits # {} /\ includes(group, GroupIn) THEN "in"
        ELSE IF hits # {} /\ includes(group, GroupOut) THEN "out"
        ELSE IF \E kw \in incomeKeywords : includes(lower, kw) THEN "in"
        ELSE "out"

(***************************************************************************)
(* Cells of a sheet (part_003, the parser).  XLSX.utils.sheet_to_json with *)
(* header: 1 and defval: '' yields rows of strings and numbers; a number   *)
(* is held as an integer count of hundredths; reading past the end of a    *)
(* row yields undefined.                                                   *)
(***************************************************************************)
Undefined == [t |-> "u", s |-> <<>>, n |-> 0]

Str(x) == [t |-> "s", s |-> x, n |-> 0]

Num(v) == [t |-> "n", s |-> <<>>, n |-> v]

\* !value: undefined, null, '' and 0 are falsy
falsy(v) == v.t = "u" \/ (v.t = "s" /\ v.s = <<>>) \/ (v.t = "n" /\ v.n = 0)

\* row[c], c counted from 0; -1 and positions past the end give undefined
cellAt(row, c) == IF c >= 0 /\ c < Len(row) THEN row[c + 1] ELSE Undefined

DigitSeq == <<"0", "1", "2", "3", "4", "5", "6", "7", "8", "9">>

digitValue(c) == (CHOOSE i \in DOMAIN DigitSeq : DigitSeq[i] = c) - 1

isDigits(s) == \A i \in DOMAIN s : s[i] \in Digits

RECURSIVE natToString(_)
natToString(k) ==
    IF k < 10 THEN <<DigitSeq[k + 1]>>
    ELSE natToString(k \div 10) \o <<DigitSeq[(k % 10) + 1]>>

abs(x) == IF x < 0 THEN -x ELSE x

\* the decimals of a count of hundredths, trailing zeros dropped
fractionDigits(frac) ==
    IF frac = 0 THEN <<>>
    ELSE IF frac % 10 = 0 THEN <<".", DigitSeq[(frac \div 10) + 1]>>
    ELSE <<".", DigitSeq[(frac \div 10) + 1], DigitSeq[(frac % 10) + 1]>>

\* String(number): the shortest decimal form of a count of hundredths
numberToString(n) ==
    (IF n < 0 THEN <<"-">> ELSE <<>>) \o natToString(abs(n) \div 100) \o fractionDigits(abs(n) % 100)

\* String(value)
String(v) ==
    IF v.t = "s" THEN v.s
    ELSE IF v.t = "n" THEN numberToString(v.n)
    ELSE <<"latu", "latn", "latd", "late", "latf", "lati", "latn", "late", "latd">>

\* String(value || '').trim()
text(v) == IF falsy(v) THEN <<>> ELSE trim(String(v))

RECURSIVE parseInt(_)
\* parseInt(digits, 10) of a run of digits
parseInt(digits) ==
    IF digits = <<>> THEN 0
    ELSE 10 * parseInt(SubSeq(digits, 1, Len(digits) - 1)) + digitValue(digits[Len(digits)])

\* the longest run of digits at the head of s
digitPrefix(s) ==
    IF \A i \in DOMAIN s : s[i] \in Digits THEN s
    ELSE SubSeq(s, 1, Min({i \in DOMAIN s : s[i] \notin Digits}) - 1)

\* the digits after a point at the head of rest, none without the point
fractionOf(rest) == IF rest # <<>> /\ rest[1] = "." THEN digitPrefix(Tail(rest)) ELSE <<>>

\* the number read from the digits before and after the point, in
\* hundredths; NaN when there is no digit
floatValue(whole, frac) ==
    IF whole = <<>> /\ frac = <<>> THEN [nan |-> TRUE, n |-> 0]
    ELSE [nan |-> FALSE, n |-> 100 * parseInt(whole) + parseInt(Take(frac \o <<"0", "0">>, 2))]

floatAfter(whole, body) == floatValue(whole, fractionOf(SubSeq(body, Len(whole) + 1, Len(body))))

unsignedFloat(body) == floatAfter(digitPrefix(body), body)

negated(num) == [num EXCEPT !.n = -num.n]

\* parseFloat of a string of digits, points and minus signs: an optional
\* sign, digits, an optional point and digits; whatever follows is ignored
parseFloat(str) ==
    IF str # <<>> /\ str[1] = "-" THEN negated(unsignedFloat(Tail(str))) ELSE unsignedFloat(str)

\* the filtering of parseAmount (lines 264-267): blanks removed, commas to
\* points, everything but digits, points and minus signs removed
amountChars(s) ==
    SelectSeq([i \in DOMAIN s |-> IF s[i] = "," THEN "." ELSE s[i]],
              LAMBDA c : c \in Digits \cup {".", "-"})

\* isNaN(num) ? 0 : num
numberOrZero(num) == IF num.nan THEN 0 ELSE num.n

\* the mutant of parseAmount: the sign is kept
parseAmountSigned(value) ==
    IF falsy(value) THEN 0
    ELSE IF value.t = "n" THEN value.n
    ELSE numberOrZero(parseFloat(amountChars(String(value))))

parseAmount(value) ==
    IF falsy(value) THEN 0
    ELSE IF value.t = "n" THEN abs(value.n)
    ELSE abs(numberOrZero(parseFloat(amountChars(String(value)))))

(***************************************************************************)
(* Dates.  A Date is the number of its local calendar day, 1 January 1970  *)
(* being day 0; null is a record of its own.                               *)
(***************************************************************************)
NullDate == [ok |-> FALSE, day |-> 0]

DateOf(d) == [ok |-> TRUE, day |-> d]

\* the day number of the first day of the month, from the year counted from
\* March (yy) and the month counted from March (mp)
daysFromMarch(yy, mp) ==
    (yy \div 400) * 146097
        + (yy % 400) * 365 + ((yy % 400) \div 4) - ((yy % 400) \div 100)
        + ((153 * mp + 2) \div 5)
        - 719468

\* the day number of the first day of month m (1..12) of year y
firstOfMonth(y, m) ==
    IF m <= 2 THEN daysFromMarch(y - 1, m + 9) ELSE daysFromMarch(y, m - 3)

\* new Date(year, monthIndex, day): years 0..99 mean 1900..1999, months and
\* days out of range roll over
newDate(year, monthIndex, day) ==
    DateOf(firstOfMonth((IF year >= 0 /\ year <= 99 THEN 1900 + year ELSE year)
                            + (monthIndex \div 12),
                        (monthIndex % 12) + 1)
           + day - 1)

\* XLSX.SSF.parse_date_code and new Date(d.y, d.m - 1, d.d) (lines 206-207):
\* the calendar day of an Excel serial number; a negative number has no date
\* code and the property access throws.  Serial 60 is the 29 February 1900
\* of Excel, which new Date rolls over to 1 March.
serialDate(n) ==
    IF n < 0 THEN NullDate
    ELSE IF n \div 100 >= 60 THEN DateOf(Max({n \div 100, 61}) - 25569)
    ELSE DateOf((n \div 100) - 25568)

\* parts when it is three runs of digits that sep joins to str, else <<>>
threeGroups(str, sep, parts) ==
    IF Len(parts) = 3 /\ join(parts, <<sep>>) = str /\ \A i \in 1..3 : isDigits(parts[i])
    THEN parts ELSE <<>>

\* the three groups of str when it is digits sep digits sep digits, else <<>>
dateGroups(str, sep) == threeGroups(str, sep, splitNonEmpty(str, {sep}))

\* do the groups have between the given numbers of digits each
groupsFit(groups, first, middle, last) ==
    /\ groups # <<>>
    /\ Len(groups[1]) \in first
    /\ Len(groups[2]) \in middle
    /\ Len(groups[3]) \in last

\* year += year < 50 ? 2000 : 1900
shortYear(year) == year + (IF year < 50 THEN 2000 ELSE 1900)

\* new Date(str) (line 252) of a string none of the four patterns matches:
\* the engines agree on an invalid date for a string without digits
standardDate(str) == NullDate

\* the four patterns of parseDate in turn (lines 216-249), then line 252
matchDate(str, dots, dashes, slashes) ==
    IF groupsFit(dots, {1, 2}, {1, 2}, {4})
    THEN newDate(parseInt(dots[3]), parseInt(dots[2]) - 1, parseInt(dots[1]))
    ELSE IF groupsFit(dots, {1, 2}, {1, 2}, {2})
    THEN newDate(shortYear(parseInt(dots[3])), parseInt(dots[2]) - 1, parseInt(dots[1]))
    ELSE IF groupsFit(dashes, {4}, {1, 2}, {1, 2})
    THEN newDate(parseInt(dashes[1]), parseInt(dashes[2]) - 1, parseInt(dashes[3]))
    ELSE IF groupsFit(slashes, {1, 2}, {1, 2}, {4})
    THEN newDate(parseInt(slashes[3]), parseInt(slashes[2]) - 1, parseInt(slashes[1]))
    ELSE standardDate(str)

\* parseDate of a trimmed text
dateOfText(str) ==
    IF str = <<>> THEN NullDate
    ELSE matchDate(str, dateGroups(str, "."), dateGroups(str, "-"), dateGroups(str, "/"))

parseDate(value) ==
    IF falsy(value) THEN NullDate
    ELSE IF value.t = "n" THEN serialDate(value.n)
    ELSE dateOfText(trim(String(value)))

(***************************************************************************)
(* Headers and columns                                                     *)
(***************************************************************************)
RECURSIVE collapseSpaces(_)
\* replace(/\s+/g, ' ')
collapseSpaces(s) ==
    IF s = <<>> THEN <<>>
    ELSE IF s[1] \notin WhiteSpace THEN <<s[1]>> \o collapseSpaces(Tail(s))
    ELSE IF Len(s) > 1 /\ s[2] \in WhiteSpace THEN collapseSpaces(Tail(s))
    ELSE <<" ">> \o collapseSpaces(Tail(s))

normalizeHeader(h) == collapseSpaces(trim(toLowerCase(h)))

\* the position counted from 0 of the least of the positions hits, or -1
firstOf(hits) == IF hits = {} THEN -1 ELSE Min(hits) - 1

\* normalized.findIndex(h => h.includes(needle)), counted from 0
findIncluding(normalized, needle) ==
    firstOf({i \in DOMAIN normalized : includes(normalized[i], needle)})

RECURSIVE firstKeywordIndex(_, _)
\* lines 283-288: the first keyword that some header contains decides
firstKeywordIndex(normalized, keywords) ==
    IF keywords = <<>> THEN -1
    ELSE IF \E i \in DOMAIN normalized : includes(normalized[i], toLowerCase(keywords[1]))
    THEN findIncluding(normalized, toLowerCase(keywords[1]))
    ELSE firstKeywordIndex(normalized, Tail(keywords))

\* findColumnIndex with the loops exchanged: the leftmost header that
\* contains any of the keywords
findLeftmostOfAny(headers, keywords) ==
    firstOf({i \in DOMAIN headers :
                \E k \in DOMAIN keywords :
                    includes(normalizeHeader(headers[i]), toLowerCase(keywords[k]))})

findColumnIndex(headers, keywords) ==
    firstKeywordIndex([i \in DOMAIN headers |-> normalizeHeader(headers[i])], keywords)

\* row.map(h => String(h || ''))
cellTexts(row) == [i \in DOMAIN row |-> IF falsy(row[i]) THEN <<>> ELSE String(row[i])]

\* (data[headerRowIndex] || []).map(h => String(h || ''))
headerTexts(data, headerRowIndex) ==
    IF headerRowIndex < Len(data) THEN cellTexts(data[headerRowIndex + 1]) ELSE <<>>

\* the mutant of nextId: the counter is read but not advanced
nextIdStale(gid, t) == [id |-> <<"tx", gid + 1, t>>, globalId |-> gid]

\* nextId: `tx_${++globalId}_${Date.now()}`
nextId(gid, t) == [id |-> <<"tx", gid + 1, t>>, globalId |-> gid + 1]

(***************************************************************************)
(* The three extractors.  An extractor returns its transactions and the    *)
(* value of the id counter it leaves behind; the clock is read once per    *)
(* extraction (the loop is synchronous).  A transaction is built without   *)
(* its id and takes the next id when it is pushed.                         *)
(***************************************************************************)
Epoch == DateOf(0)

\* date || new Date(0)
dateOrEpoch(date) == IF date.ok THEN date.day ELSE Epoch.day

appendIssued(before, issued) ==
    [ids |-> Append(before.ids, issued.id), globalId |-> issued.globalId]

appendId(before, t) == appendIssued(before, nextId(before.globalId, t))

RECURSIVE issueIds(_, _, _)
\* n successive calls of nextId
issueIds(gid, t, n) ==
    IF n = 0 THEN [ids |-> <<>>, globalId |-> gid]
    ELSE appendId(issueIds(gid, t, n - 1), t)

stamp(records, issued) ==
    [transactions |-> [k \in DOMAIN records |-> [records[k] EXCEPT !.id = issued.ids[k]]],
     globalId |-> issued.globalId]

\* transactions.push({ id: nextId(), ... }) for the rows kept, in row order
pushAll(records, gid, t) == stamp(records, issueIds(gid, t, Len(records)))

\* for (let i = headerRowIndex + 1; i < data.length; i++): the rows below
\* the header row
dataRows(data, headerRowIndex) == SubSeq(data, headerRowIndex + 2, Len(data))

\* row[col] when the column was found, else the default the extractor passes
cellOr(row, col, default) == IF col # -1 THEN cellAt(row, col) ELSE default

\* String(col !== -1 ? (row[col] || '') : '').trim()
field(row, col) == text(cellOr(row, col, Str(<<>>)))

\* lines 376-377 with a test of the date added: a row without a date is skipped
journalRowKeptDated(date, amount, article) == date.ok /\ amount # 0

\* lines 376-377 and 427-428
journalRowKept(date, amount, article) ==
    /\ ~(~date.ok /\ amount = 0 /\ article = <<>>)
    /\ amount # 0

keepJournalRow(row, dateCol, amountCol, articleCol) ==
    journalRowKept(parseDate(cellOr(row, dateCol, Undefined)),
                   parseAmount(cellOr(row, amountCol, Num(0))),
                   field(row, articleCol))

\* lines 599-600
fallbackRowKept(date, amount) ==
    /\ ~(~date.ok /\ amount = 0)
    /\ amount # 0

keepFallbackRow(row, dateCol, amountCol) ==
    fallbackRowKept(parseDate(cellOr(row, dateCol, Undefined)),
                    parseAmount(cellOr(row, amountCol, Num(0))))

NoTransactions(gid) == [transactions |-> <<>>, globalId |-> gid]

\* lines 357-364
cashColumns(headers) ==
    [date |-> findColumnIndex(headers, <<<<"d", "a", "t", "a", " ", "o", "p", "l", "a", "t", "y">>, <<"d", "a", "t", "a", " ", "p", "o", "s", "t", "u", "p", "l", "e", "n", "i", "ya">>, <<"d", "a", "t", "a">>>>),
     wallet |-> findColumnIndex(headers, <<<<"k", "o", "sh", "e", "l", "e", "k">>, <<"k", "o", "sh", "e", "l", "yo", "k">>>>),
     amount |-> findColumnIndex(headers, <<<<"s", "u", "m", "m", "a", " ", "v", " ", "r", "u", "b", "l", "ya", "h">>, <<"s", "u", "m", "m", "a">>>>),
     note |-> findColumnIndex(headers, <<<<"p", "r", "i", "m", "e", "ch", "a", "n", "i", "e">>, <<"n", "a", "z", "n", "a", "ch", "e", "n", "i", "e">>>>),
     branch |-> findColumnIndex(headers, <<<<"f", "i", "l", "i", "a", "l">>>>),
     counterparty |-> findColumnIndex(headers, <<<<"k", "o", "n", "t", "r", "a", "g", "e", "n", "t">>>>),
     article |-> findColumnIndex(headers, <<<<"s", "t", "a", "t", "ss", "ya", " ", "d", "o", "h", "o", "d", "a">>, <<"s", "t", "a", "t", "ss", "ya", " ", "r", "a", "s", "h", "o", "d", "a">>, <<"s", "t", "a", "t", "ss", "ya">>>>),
     accrual |-> findColumnIndex(headers, <<<<"m", "e", "s", "ya", "c", " ", "n", "a", "ch", "i", "s", "l", "e", "n", "i", "ya">>>>)]

\* lines 382-397
cashRecord(row, cols, sheetName, sourceName, article, articlesRef) ==
    [id |-> <<>>,
     date |-> dateOrEpoch(parseDate(cellOr(row, cols.date, Undefined))),
     source |-> sourceName,
     sheet |-> sheetName,
     sheetType |-> "cash_journal",
     wallet |-> field(row, cols.wallet),
     amount |-> parseAmount(cellOr(row, cols.amount, Num(0))),
     direction |-> getDirection(article, articlesRef),
     note |-> field(row, cols.note),
     branch |-> field(row, cols.branch),
     counterparty |-> field(row, cols.counterparty),
     article |-> article,
     accrualMonth |-> field(row, cols.accrual),
     document |-> <<>>]

cashRows(rows, cols, sheetName, sourceName, articlesRef, gid, t) ==
    pushAll([k \in DOMAIN rows |->
                cashRecord(rows[k], cols, sheetName, sourceName,
                           field(rows[k], cols.article), articlesRef)],
            gid, t)

cashWith(rows, cols, sheetName, sourceName, articlesRef, gid, t) ==
    cashRows(SelectSeq(rows, LAMBDA row : keepJournalRow(row, cols.date, cols.amount, cols.article)),
             cols, sheetName, sourceName, articlesRef, gid, t)

parseCashJournal(data, sheetName, sourceName, articlesRef, headerRowIndex, gid, t) ==
    IF Len(data) < headerRowIndex + 2 THEN NoTransactions(gid)
    ELSE cashWith(dataRows(data, headerRowIndex),
                  cashColumns(headerTexts(data, headerRowIndex)),
                  sheetName, sourceName, articlesRef, gid, t)

\* lines 410-416
bankColumns(headers) ==
    [date |-> findColumnIndex(headers, <<<<"p", "e", "r", "i", "o", "d">>, <<"d", "a", "t", "a">>>>),
     doc |-> findColumnIndex(headers, <<<<"d", "o", "k", "u", "m", "e", "n", "t">>>>),
     dt |-> findColumnIndex(headers, <<<<"a", "n", "a", "l", "i", "t", "i", "k", "a", " ", "d", "t">>>>),
     kt |-> findColumnIndex(headers, <<<<"a", "n", "a", "l", "i", "t", "i", "k", "a", " ", "k", "t">>>>),
     amount |-> findColumnIndex(headers, <<<<"s", "u", "m", "m", "a", " ", "d", "l", "ya", " ", "d", "d", "s">>, <<"s", "u", "m", "m", "a", " ", "d", "d", "s">>, <<"s", "u", "m", "m", "a">>>>),
     article |-> findColumnIndex(headers, <<<<"s", "t", "a", "t", "ss", "ya">>>>),
     accrual |-> findColumnIndex(headers, <<<<"m", "e", "s", "ya", "c", " ", "n", "a", "ch", "i", "s", "l", "e", "n", "i", "ya">>>>)]

\* bankRecord with the counterparty always read from the debit column
bankRecordDebitOnly(row, cols, sheetName, sourceName, article, direction) ==
    [id |-> <<>>,
     date |-> dateOrEpoch(parseDate(cellOr(row, cols.date, Undefined))),
     source |-> sourceName,
     sheet |-> sheetName,
     sheetType |-> "bank_journal",
     wallet |-> <<>>,
     amount |-> parseAmount(cellOr(row, cols.amount, Num(0))),
     direction |-> direction,
     note |-> <<>>,
     branch |-> <<>>,
     counterparty |-> field(row, cols.dt),
     article |-> article,
     accrualMonth |-> field(row, cols.accrual),
     document |-> field(row, cols.doc)]

\* lines 433-452
bankRecord(row, cols, sheetName, sourceName, article, direction) ==
    [id |-> <<>>,
     date |-> dateOrEpoch(parseDate(cellOr(row, cols.date, Undefined))),
     source |-> sourceName,
     sheet |-> sheetName,
     sheetType |-> "bank_journal",
     wallet |-> <<>>,
     amount |-> parseAmount(cellOr(row, cols.amount, Num(0))),
     direction |-> direction,
     note |-> <<>>,
     branch |-> <<>>,
     counterparty |-> IF direction = "out" THEN field(row, cols.dt) ELSE field(row, cols.kt),
     article |-> article,
     accrualMonth |-> field(row, cols.accrual),
     document |-> field(row, cols.doc)]

bankOfArticle(row, cols, sheetName, sourceName, article, articlesRef) ==
    bankRecord(row, cols, sheetName, sourceName, article, getDirection(article, articlesRef))

bankRows(rows, cols, sheetName, sourceName, articlesRef, gid, t) ==
    pushAll([k \in DOMAIN rows |->
                bankOfArticle(rows[k], cols, sheetName, sourceName,
                              field(rows[k], cols.article), articlesRef)],
            gid, t)

bankWith(rows, cols, sheetName, sourceName, articlesRef, gid, t) ==
    bankRows(SelectSeq(rows, LAMBDA row : keepJournalRow(row, cols.date, cols.amount, cols.article)),
             cols, sheetName, sourceName, articlesRef, gid, t)

parseBankJournal(data, sheetName, sourceName, articlesRef, headerRowIndex, gid, t) ==
    IF Len(data) < headerRowIndex + 2 THEN NoTransactions(gid)
    ELSE bankWith(dataRows(data, headerRowIndex),
                  bankColumns(headerTexts(data, headerRowIndex)),
                  sheetName, sourceName, articlesRef, gid, t)

\* lines 582-589
fallbackColumns(headers) ==
    [date |-> findColumnIndex(headers, <<<<"d", "a", "t", "a">>, <<"p", "e", "r", "i", "o", "d">>, <<"latd", "lata", "latt", "late">>>>),
     amount |-> findColumnIndex(headers, <<<<"s", "u", "m", "m", "a">>, <<"lata", "latm", "lato", "latu", "latn", "latt">>, <<"i", "t", "o", "g", "o">>>>),
     article |-> findColumnIndex(headers, <<<<"s", "t", "a", "t", "ss", "ya">>, <<"n", "a", "z", "n", "a", "ch", "e", "n", "i", "e">>, <<"k", "a", "t", "e", "g", "o", "r", "i", "ya">>>>),
     counterparty |-> findColumnIndex(headers, <<<<"k", "o", "n", "t", "r", "a", "g", "e", "n", "t">>, <<"p", "o", "l", "u", "ch", "a", "t", "e", "l", "ss">>, <<"p", "l", "a", "t", "e", "l", "ss", "sch", "i", "k">>>>),
     note |-> findColumnIndex(headers, <<<<"p", "r", "i", "m", "e", "ch", "a", "n", "i", "e">>, <<"k", "o", "m", "m", "e", "n", "t", "a", "r", "i", "j">>, <<"o", "p", "i", "s", "a", "n", "i", "e">>, <<"n", "a", "z", "n", "a", "ch", "e", "n", "i", "e">>>>)]

\* lines 604-619
fallbackRecord(row, cols, sheetName, sourceName, article, articlesRef) ==
    [id |-> <<>>,
     date |-> dateOrEpoch(parseDate(cellOr(row, cols.date, Undefined))),
     source |-> sourceName,
     sheet |-> sheetName,
     sheetType |-> "cash_journal",
     wallet |-> <<>>,
     amount |-> parseAmount(cellOr(row, cols.amount, Num(0))),
     direction |-> getDirection(article, articlesRef),
     note |-> field(row, cols.note),
     branch |-> <<>>,
     counterparty |-> field(row, cols.counterparty),
     article |-> article,
     accrualMonth |-> <<>>,
     document |-> <<>>]

fallbackRows(rows, cols, sheetName, sourceName, articlesRef, gid, t) ==
    pushAll([k \in DOMAIN rows |->
                fallbackRecord(rows[k], cols, sheetName, sourceName,
                               field(rows[k], cols.article), articlesRef)],
            gid, t)

\* lines 593-600 under the columns found
fallbackWith(rows, cols, sheetName, sourceName, articlesRef, gid, t) ==
    IF cols.date = -1 /\ cols.amount = -1 THEN NoTransactions(gid)
    ELSE fallbackRows(SelectSeq(rows, LAMBDA row : keepFallbackRow(row, cols.date, cols.amount)),
                      cols, sheetName, sourceName, articlesRef, gid, t)

tryParseFallback(data, sheetName, sourceName, articlesRef, headerRowIndex, gid, t) ==
    IF Len(data) < headerRowIndex + 2 THEN NoTransactions(gid)
    ELSE fallbackWith(dataRows(data, headerRowIndex),
                      fallbackColumns(headerTexts(data, headerRowIndex)),
                      sheetName, sourceName, articlesRef, gid, t)

(***************************************************************************)
(* Header row, sheet type, sheet profile, reference sheet (part_003)       *)
(***************************************************************************)
\* replace(/\n/g, ' ')
replaceNewlines(s) == [i \in DOMAIN s |-> IF s[i] = "\n" THEN " " ELSE s[i]]

\* line 158: the default of findHeaderRow's maxRows
maxRows == 10

\* lines 161-166
headerKeywords ==
    <<<<"d", "a", "t", "a">>, <<"s", "u", "m", "m", "a">>, <<"s", "t", "a", "t", "ss", "ya">>, <<"k", "o", "n", "t", "r", "a", "g", "e", "n", "t">>, <<"p", "e", "r", "i", "o", "d">>, <<"d", "o", "k", "u", "m", "e", "n", "t">>,
      <<"a", "n", "a", "l", "i", "t", "i", "k", "a">>, <<"k", "o", "sh", "e", "l", "e", "k">>, <<"k", "o", "sh", "e", "l", "yo", "k">>, <<"f", "i", "l", "i", "a", "l">>, <<"p", "r", "i", "m", "e", "ch", "a", "n", "i", "e">>,
      <<"k", "r", "e", "d", "i", "t">>, <<"d", "e", "b", "e", "t">>, <<"s", "a", "l", "ss", "d", "o">>, <<"g", "r", "u", "p", "p", "a">>, <<"s", "p", "r", "a", "v", "o", "ch", "n", "i", "k">>,
      <<"s", "t", "a", "t", "ss", "ya", " ", "d", "d", "s">>, <<"v", "i", "d", " ", "d", "e", "ya", "t", "e", "l", "ss", "n", "o", "s", "t", "i">>, <<"n", "a", "z", "n", "a", "ch", "e", "n", "i", "e">>, <<"p", "o", "s", "t", "u", "p", "l", "e", "n">>>>

\* is rest, what follows the leading digits whole, the end of a numeral
numeralTail(whole, rest) ==
    \/ whole # <<>> /\ rest = <<>>
    \/ /\ rest # <<>>
       /\ rest[1] = "."
       /\ isDigits(Tail(rest))
       /\ (whole # <<>> \/ Tail(rest) # <<>>)

unsignedNumeral(body) ==
    numeralTail(digitPrefix(body), SubSeq(body, Len(digitPrefix(body)) + 1, Len(body)))

\* is the trimmed text t blank or an optionally signed decimal numeral
numeral(t) ==
    \/ t = <<>>
    \/ IF t[1] \in {"-", "+"} THEN unsignedNumeral(Tail(t)) ELSE unsignedNumeral(t)

\* !isNaN(Number(str)) for the texts a sheet holds
numericString(str) == numeral(trim(str))

\* lines 176-186 for the lowered, trimmed text of a cell, in halves
scoreOf(cell, cellStr) ==
    IF cellStr = <<>> THEN 0
    ELSE (IF \E i \in DOMAIN headerKeywords : includes(cellStr, headerKeywords[i])
          THEN 4 ELSE 0)
         + (IF cell.t = "s" /\ ~numericString(cell.s) /\ Len(cellStr) > 1 THEN 1 ELSE 0)

\* the score a cell adds to its row, in halves (lines 175-186)
cellScore(cell) ==
    scoreOf(cell, replaceNewlines(trim(toLowerCase(IF falsy(cell) THEN <<>> ELSE String(cell)))))

RECURSIVE rowScore(_)
rowScore(row) == IF row = <<>> THEN 0 ELSE cellScore(row[1]) + rowScore(Tail(row))

\* lines 188-191 with >= for >: a later row of the same score takes over
betterOrEqual(best, i, score) ==
    IF score >= best.bestScore THEN [bestRow |-> i, bestScore |-> score] ELSE best

\* lines 188-191: if (score > bestScore) { bestScore = score; bestRow = i; }
better(best, i, score) ==
    IF score > best.bestScore THEN [bestRow |-> i, bestScore |-> score] ELSE best

RECURSIVE scanRows(_, _)
\* lines 168-192: bestRow and bestScore after the first n rows
scanRows(scores, n) ==
    IF n = 0 THEN [bestRow |-> 0, bestScore |-> 0]
    ELSE better(scanRows(scores, n - 1), n - 1, scores[n])

\* bestRow after the loop
bestRowOf(scores) == scanRows(scores, Len(scores)).bestRow

\* lines 194-195
headerAt(data, bestRow) ==
    [headerRowIndex |-> bestRow, headers |-> headerTexts(data, bestRow)]

\* the rows scored are the first maxRows
findHeaderRow(data) ==
    headerAt(data, bestRowOf([i \in 1..Min({Len(data), maxRows}) |-> rowScore(data[i])]))

\* null of detectSheetTypeByName
NoType == "none"

\* lines 16-55 for the lowered, trimmed name
typeOfName(lower) ==
    IF \/ includes(lower, <<"s", "p", "r", "a", "v", "o", "ch", "n", "i", "k">>)
       \/ includes(lower, <<"s", "t", "a", "t", "ss", "i">>)
       \/ includes(lower, <<"s", "t", "a", "t", "ss", "ya", " ", "d", "d", "s">>)
       \/ lower = <<"d", "d", "s">>
       \/ lower = <<"latr", "late", "latf">>
       \/ includes(lower, <<"latr", "late", "latf", "late", "latr", "late", "latn", "latc", "late">>)
    THEN "reference"
    ELSE IF \/ includes(lower, <<"zh", "u", "r", "n", "a", "l">>)
            \/ includes(lower, <<"k", "a", "s", "s", "a">>)
            \/ includes(lower, <<"m", "o", "b", "i">>)
            \/ includes(lower, <<"l", "e", "o", "n", "o", "v">>)
            \/ includes(lower, <<"m", "i", "r", "a">>)
            \/ includes(lower, <<"d", "i", "k">>)
            \/ includes(lower, <<"t", "o", "ch", "k">>)
    THEN "cash_journal"
    ELSE IF \/ includes(lower, <<"r", "/", "s">>)
            \/ includes(lower, <<"r", "\\", "s">>)
            \/ includes(lower, <<"r", "a", "s", "ch">>)
            \/ includes(lower, <<"r", "s", " ">>)
            \/ startsWith(lower, <<"r", "s">>)
            \/ includes(lower, <<"b", "a", "n", "k">>)
            \/ includes(lower, <<"s", "ch", "e", "t">>)
            \/ includes(lower, <<"s", "ch", "yo", "t">>)
            \/ includes(lower, <<"latb", "lata", "latn", "latk">>)
    THEN "bank_journal"
    ELSE NoType

detectSheetTypeByName(sheetName) == typeOfName(trim(toLowerCase(sheetName)))

\* lines 61-96 for the joined headers
typeOfJoined(joined) ==
    IF includes(joined, <<"s", "t", "a", "t", "ss", "ya", " ", "d", "d", "s">>) /\ includes(joined, <<"g", "r", "u", "p", "p", "a">>) THEN "reference"
    ELSE IF includes(joined, <<"s", "p", "r", "a", "v", "o", "ch", "n", "i", "k", " ", "k", "o", "n", "t", "r", "a", "g", "e", "n", "t", "o", "v">>) THEN "reference"
    ELSE IF \/ includes(joined, <<"d", "a", "t", "a", " ", "o", "p", "l", "a", "t", "y">>)
            \/ includes(joined, <<"k", "o", "sh", "e", "l", "e", "k">>)
            \/ includes(joined, <<"k", "o", "sh", "e", "l", "yo", "k">>)
            \/ (includes(joined, <<"f", "i", "l", "i", "a", "l">>) /\ includes(joined, <<"s", "t", "a", "t", "ss", "ya", " ", "d", "o", "h", "o", "d", "a">>))
            \/ (includes(joined, <<"k", "o", "n", "t", "r", "a", "g", "e", "n", "t">>) /\ includes(joined, <<"s", "t", "a", "t", "ss", "ya", " ", "d", "o", "h", "o", "d", "a">>))
            \/ (includes(joined, <<"s", "u", "m", "m", "a", " ", "v", " ", "r", "u", "b", "l", "ya", "h">>) /\ includes(joined, <<"k", "o", "n", "t", "r", "a", "g", "e", "n", "t">>))
    THEN "cash_journal"
    ELSE IF \/ (includes(joined, <<"p", "e", "r", "i", "o", "d">>) /\ includes(joined, <<"a", "n", "a", "l", "i", "t", "i", "k", "a">>))
            \/ (includes(joined, <<"a", "n", "a", "l", "i", "t", "i", "k", "a", " ", "d", "t">>) \/ includes(joined, <<"a", "n", "a", "l", "i", "t", "i", "k", "a", " ", "k", "t">>))
            \/ (includes(joined, <<"s", "u", "m", "m", "a", " ", "d", "l", "ya", " ", "d", "d", "s">>) /\ includes(joined, <<"s", "t", "a", "t", "ss", "ya">>))
            \/ (/\ includes(joined, <<"d", "o", "k", "u", "m", "e", "n", "t">>)
                /\ includes(joined, <<"d", "e", "b", "e", "t">>)
                /\ includes(joined, <<"k", "r", "e", "d", "i", "t">>))
    THEN "bank_journal"
    ELSE IF includes(joined, <<"s", "t", "a", "t", "ss", "ya", " ", "d", "o", "h", "o", "d", "a">>) \/ includes(joined, <<"s", "t", "a", "t", "ss", "ya", " ", "r", "a", "s", "h", "o", "d", "a">>)
    THEN "cash_journal"
    ELSE "unknown"

detectSheetTypeByHeaders(headers) ==
    typeOfJoined(join([i \in DOMAIN headers |-> replaceNewlines(trim(toLowerCase(headers[i])))],
                      <<"|">>))

\* detectSheetType with the headers asked before the name
firstTypeHeadersFirst(byName, headers) ==
    IF detectSheetTypeByHeaders(headers) # "unknown" THEN detectSheetTypeByHeaders(headers)
    ELSE IF byName # NoType THEN byName
    ELSE "unknown"

\* byName ? byName : detectSheetTypeByHeaders(headers)
firstType(byName, headers) ==
    IF byName # NoType THEN byName ELSE detectSheetTypeByHeaders(headers)

detectSheetType(sheetName, headers) == firstType(detectSheetTypeByName(sheetName), headers)

LatinCapitals ==
    <<"latA", "latB", "latC", "latD", "latE", "latF", "latG", "latH", "latI", "latJ",
      "latK", "latL", "latM", "latN", "latO", "latP", "latQ", "latR", "latS", "latT",
      "latU", "latV", "latW", "latX", "latY", "latZ">>

RECURSIVE lettersOf(_)
\* the loop of getColumnLetter on n = colIndex + 1
lettersOf(n) ==
    IF n <= 0 THEN <<>>
    ELSE lettersOf((n - 1) \div 26) \o <<LatinCapitals[((n - 1) % 26) + 1]>>

getColumnLetter(colIndex) == lettersOf(colIndex + 1)

\* the values at the positions given
valuesAt(values, positions) == [k \in DOMAIN positions |-> values[positions[k]]]

\* lines 138-141 over the rows: a value is pushed unless the bucket includes
\* it, so the bucket holds every value once, at the place of its first
\* occurrence
distinctInOrder(values) ==
    valuesAt(values,
             SelectSeq([i \in DOMAIN values |-> i],
                       LAMBDA i : \A j \in 1..(i - 1) : values[j] # values[i]))

\* line 146: the most values a profile keeps per column
ProfileValuesLimit == 300

\* title || `Kolonka ${getColumnLetter(idx)}`
titleOr(title, idx) == IF title # <<>> THEN title ELSE <<"K", "o", "l", "o", "n", "k", "a", " ">> \o getColumnLetter(idx)

\* lines 121-124
profileHeaders(headerRow) == [i \in DOMAIN headerRow |-> titleOr(text(headerRow[i]), i - 1)]

\* line 126
uniqueHeadersOf(headers) ==
    [i \in DOMAIN headers |->
        IF \A j \in 1..(i - 1) : headers[j] # headers[i] THEN headers[i]
        ELSE headers[i] \o <<" ", "(">> \o getColumnLetter(i - 1) \o <<")">>]

\* String(row[c] ?? '').trim()
profileValue(v) == IF v.t = "u" THEN <<>> ELSE trim(String(v))

\* the cells below the header row, row by row, each under its column name
profileCells(rows, uniqueHeaders) ==
    [k \in 1..(Len(rows) * Len(uniqueHeaders)) |->
        [column |-> uniqueHeaders[((k - 1) % Len(uniqueHeaders)) + 1],
         value |-> profileValue(cellAt(rows[((k - 1) \div Len(uniqueHeaders)) + 1],
                                       (k - 1) % Len(uniqueHeaders)))]]

valuesOf(cells) == [k \in DOMAIN cells |-> cells[k].value]

\* lines 133-147 for one column name
bucketOf(cells, header) ==
    Take(distinctInOrder(valuesOf(SelectSeq(cells,
                                            LAMBDA e : e.column = header /\ e.value # <<>>))),
         ProfileValuesLimit)

profileOf(uniqueHeaders, cells) ==
    [sheetName |-> <<>>,
     columns |-> uniqueHeaders,
     valuesByColumn |-> [h \in Range(uniqueHeaders) |-> bucketOf(cells, h)]]

profileUnder(rows, uniqueHeaders) == profileOf(uniqueHeaders, profileCells(rows, uniqueHeaders))

buildSheetProfile(data, headerRowIndex) ==
    profileUnder(dataRows(data, headerRowIndex),
                 uniqueHeadersOf(profileHeaders(IF headerRowIndex < Len(data)
                                                THEN data[headerRowIndex + 1] ELSE <<>>)))

\* lines 308-320 without the column of the full title: the first header
\* that includes kontragent
firstCounterpartyColumn(headers, counterpartyCol) ==
    findIncluding(headers, <<"k", "o", "n", "t", "r", "a", "g", "e", "n", "t">>)

\* lines 308-320
counterpartyColumn(headers, counterpartyCol) ==
    IF counterpartyCol # -1 THEN counterpartyCol ELSE findIncluding(headers, <<"k", "o", "n", "t", "r", "a", "g", "e", "n", "t">>)

\* lines 302-320
referenceColumns(headers) ==
    [article |-> findIncluding(headers, <<"s", "t", "a", "t", "ss", "ya", " ", "d", "d", "s">>),
     group |-> findIncluding(headers, <<"g", "r", "u", "p", "p", "a">>),
     activity |-> findIncluding(headers, <<"v", "i", "d", " ", "d", "e", "ya", "t", "e", "l", "ss", "n", "o", "s", "t", "i">>),
     comment |-> findIncluding(headers, <<"k", "o", "m", "m", "e", "n", "t", "a", "r", "i", "j">>),
     cp |-> counterpartyColumn(headers, findIncluding(headers, <<"s", "p", "r", "a", "v", "o", "ch", "n", "i", "k", " ", "k", "o", "n", "t", "r", "a", "g", "e", "n", "t", "o", "v">>))]

\* lines 326-336
articlesOf(named, cols) ==
    [k \in DOMAIN named |->
        [name |-> text(cellAt(named[k], cols.article)),
         group |-> text(cellAt(named[k], cols.group)),
         activityType |-> text(cellAt(named[k], cols.activity)),
         comment |-> text(cellAt(named[k], cols.comment))]]

\* lines 339-344
counterpartiesOf(listed, cols) == [k \in DOMAIN listed |-> [name |-> text(cellAt(listed[k], cols.cp))]]

referenceRows(rows, cols) ==
    [articles |->
        articlesOf(SelectSeq(rows, LAMBDA row :
                       cols.article # -1 /\ text(cellAt(row, cols.article)) # <<>>), cols),
     counterparties |->
        counterpartiesOf(SelectSeq(rows, LAMBDA row :
                             /\ cols.cp # -1
                             /\ text(cellAt(row, cols.cp)) # <<>>
                             /\ ~includes(toLowerCase(text(cellAt(row, cols.cp))), <<"s", "p", "r", "a", "v", "o", "ch", "n", "i", "k">>)),
                         cols)]

normalizedHeaders(headers) == [i \in DOMAIN headers |-> normalizeHeader(headers[i])]

parseReferenceSheet(data, headerRowIndex) ==
    IF Len(data) <= headerRowIndex THEN [articles |-> <<>>, counterparties |-> <<>>]
    ELSE referenceRows(dataRows(data, headerRowIndex),
                       referenceColumns(normalizedHeaders(headerTexts(data, headerRowIndex))))

(***************************************************************************)
(* parseWorkbook (part_003).  A workbook is its SheetNames, the grid       *)
(* sheet_to_json yields for each name, and the Hidden flags of             *)
(* Workbook.Sheets (an empty list when the file carries none).             *)
(***************************************************************************)
\* lines 487-490
visibleNames(all, sheetMeta) ==
    [i \in DOMAIN SelectSeq([k \in DOMAIN all |-> k],
                            LAMBDA k : k > Len(sheetMeta) \/ sheetMeta[k].Hidden = 0) |->
        all[SelectSeq([k \in DOMAIN all |-> k],
                      LAMBDA k : k > Len(sheetMeta) \/ sheetMeta[k].Hidden = 0)[i]]]

getVisibleSheetNames(workbook) ==
    IF workbook.SheetMeta = <<>> THEN workbook.SheetNames
    ELSE IF visibleNames(workbook.SheetNames, workbook.SheetMeta) # <<>>
    THEN visibleNames(workbook.SheetNames, workbook.SheetMeta)
    ELSE workbook.SheetNames

mkSheet(name, type, rowCount, sourceName) ==
    [name |-> name, type |-> type, rowCount |-> rowCount, sourceId |-> <<>>,
     sourceName |-> sourceName, selected |-> type # "reference" /\ type # "unknown"]

\* withReference keeping a list read from an earlier reference sheet when
\* the sheet at hand gives none
withReferenceKept(acc, sheetName, sourceName, rowCount, ref) ==
    [acc EXCEPT !.sheets = Append(acc.sheets, mkSheet(sheetName, "reference", rowCount, sourceName)),
                !.articles = IF ref.articles # <<>> THEN ref.articles ELSE acc.articles,
                !.counterparties = IF ref.counterparties # <<>> THEN ref.counterparties
                                   ELSE acc.counterparties]

\* lines 527-532
withReference(acc, sheetName, sourceName, rowCount, ref) ==
    [acc EXCEPT !.sheets = Append(acc.sheets, mkSheet(sheetName, "reference", rowCount, sourceName)),
                !.articles = ref.articles,
                !.counterparties = ref.counterparties]

\* lines 521-532 for the header row found
profiled(acc, sheetName, sourceName, data, found) ==
    IF detectSheetType(sheetName, found.headers) = "reference"
    THEN withReference([acc EXCEPT !.sheetProfiles =
                            Append(acc.sheetProfiles,
                                   [buildSheetProfile(data, found.headerRowIndex)
                                        EXCEPT !.sheetName = sheetName])],
                       sheetName, sourceName, Len(data) - found.headerRowIndex - 1,
                       parseReferenceSheet(data, found.headerRowIndex))
    ELSE [acc EXCEPT !.sheetProfiles =
              Append(acc.sheetProfiles,
                     [buildSheetProfile(data, found.headerRowIndex)
                          EXCEPT !.sheetName = sheetName])]

\* lines 517-532 for one sheet
profileSheet(acc, sheetName, sourceName, data) ==
    IF data = <<>> THEN acc ELSE profiled(acc, sheetName, sourceName, data, findHeaderRow(data))

RECURSIVE firstPass(_, _, _, _)
\* lines 516-533: every sheet is profiled, a reference sheet replaces the
\* articles and counterparties read so far
firstPass(workbook, names, sourceName, acc) ==
    IF names = <<>> THEN acc
    ELSE firstPass(workbook, Tail(names), sourceName,
                   profileSheet(acc, names[1], sourceName, workbook.Sheets[names[1]]))

\* lines 546-547, 550-551 and 555-560
withJournal(acc, sheetName, sourceName, type, extracted) ==
    [sheets |-> Append(acc.sheets,
                       mkSheet(sheetName, type, Len(extracted.transactions), sourceName)),
     transactions |-> acc.transactions \o extracted.transactions,
     globalId |-> extracted.globalId]

\* withFallback reporting the sheet as a cash journal whatever it yields
withFallbackAlwaysCash(acc, sheetName, sourceName, extracted) ==
    withJournal(acc, sheetName, sourceName, "cash_journal", extracted)

\* lines 555-560
withFallback(acc, sheetName, sourceName, extracted) ==
    withJournal(acc, sheetName, sourceName,
                IF extracted.transactions # <<>> THEN "cash_journal" ELSE "unknown",
                extracted)

\* lines 544-561 for the type detected
extractedAs(acc, sheetName, sourceName, articles, t, data, headerRowIndex, type) ==
    IF type = "cash_journal"
    THEN withJournal(acc, sheetName, sourceName, type,
                     parseCashJournal(data, sheetName, sourceName, articles,
                                      headerRowIndex, acc.globalId, t))
    ELSE IF type = "bank_journal"
    THEN withJournal(acc, sheetName, sourceName, type,
                     parseBankJournal(data, sheetName, sourceName, articles,
                                      headerRowIndex, acc.globalId, t))
    ELSE IF type # "reference"
    THEN withFallback(acc, sheetName, sourceName,
                      tryParseFallback(data, sheetName, sourceName, articles,
                                       headerRowIndex, acc.globalId, t))
    ELSE acc

extractedUnder(acc, sheetName, sourceName, articles, t, data, found) ==
    extractedAs(acc, sheetName, sourceName, articles, t, data, found.headerRowIndex,
                detectSheetType(sheetName, found.headers))

\* lines 537-561 for one sheet
extractSheet(acc, sheetName, sourceName, articles, t, data) ==
    IF data = <<>> THEN acc
    ELSE extractedUnder(acc, sheetName, sourceName, articles, t, data, findHeaderRow(data))

RECURSIVE secondPass(_, _, _, _, _, _)
\* lines 536-562: the journals are extracted with the articles of the first
\* pass; a sheet of no known type is tried as a cash journal
secondPass(workbook, names, sourceName, articles, t, acc) ==
    IF names = <<>> THEN acc
    ELSE secondPass(workbook, Tail(names), sourceName, articles, t,
                    extractSheet(acc, names[1], sourceName, articles, t,
                                 workbook.Sheets[names[1]]))

\* lines 564-571, with the value of the id counter left behind
parsed(sourceName, first, second) ==
    [name |-> sourceName,
     sheets |-> second.sheets,
     sheetProfiles |-> first.sheetProfiles,
     transactions |-> second.transactions,
     articles |-> first.articles,
     counterparties |-> first.counterparties,
     globalId |-> second.globalId]

\* afterFirstPass with the journals extracted before any reference sheet
\* has been read
afterFirstPassUnread(workbook, names, sourceName, gid, t, first) ==
    parsed(sourceName, first,
           secondPass(workbook, names, sourceName, <<>>, t,
                      [sheets |-> first.sheets, transactions |-> <<>>, globalId |-> gid]))

afterFirstPass(workbook, names, sourceName, gid, t, first) ==
    parsed(sourceName, first,
           secondPass(workbook, names, sourceName, first.articles, t,
                      [sheets |-> first.sheets, transactions |-> <<>>, globalId |-> gid]))

parseSheets(workbook, names, sourceName, gid, t) ==
    afterFirstPass(workbook, names, sourceName, gid, t,
                   firstPass(workbook, names, sourceName,
                             [sheets |-> <<>>, sheetProfiles |-> <<>>,
                              articles |-> <<>>, counterparties |-> <<>>]))

\* the result of parseWorkbook and the value of the id counter it leaves
parseWorkbook(workbook, sourceName, gid, t) ==
    parseSheets(workbook, getVisibleSheetNames(workbook), sourceName, gid, t)

(***************************************************************************)
(* The reducer and the derived data (AppContext.tsx)                       *)
(***************************************************************************)
\* { ...s, ...updates }
merge(s, updates) ==
    [f \in DOMAIN s \cup DOMAIN updates |-> IF f \in DOMAIN updates THEN updates[f] ELSE s[f]]

ADD_SOURCE(srcs, payload) == Append(srcs, payload)

\* UPDATE_SOURCE that lists the source again when the id is absent
UPSERT_SOURCE(srcs, id, updates) ==
    IF \E i \in DOMAIN srcs : srcs[i].id = id
    THEN [i \in DOMAIN srcs |-> IF srcs[i].id = id THEN merge(srcs[i], updates) ELSE srcs[i]]
    ELSE Append(srcs, merge([id |-> id], updates))

UPDATE_SOURCE(srcs, id, updates) ==
    [i \in DOMAIN srcs |-> IF srcs[i].id = id THEN merge(srcs[i], updates) ELSE srcs[i]]

REMOVE_SOURCE(srcs, id) == SelectSeq(srcs, LAMBDA s : s.id # id)

\* the names of the selected sheets of one source
selectedNamesOf(sheets) == {sheets[j].name : j \in {k \in DOMAIN sheets : sheets[k].selected}}

\* lines 195-209
TOGGLE_SHEET_SELECTION(srcs, sourceId, sheetName) ==
    [i \in DOMAIN srcs |->
        IF srcs[i].id # sourceId THEN srcs[i]
        ELSE [srcs[i] EXCEPT !.sheets =
                 [j \in DOMAIN srcs[i].sheets |->
                     IF srcs[i].sheets[j].name = sheetName
                     THEN [srcs[i].sheets[j] EXCEPT !.selected = ~srcs[i].sheets[j].selected]
                     ELSE srcs[i].sheets[j]]]]

\* lines 211-225
SET_ALL_SHEETS_SELECTION(srcs, sourceId, selected) ==
    [i \in DOMAIN srcs |->
        IF srcs[i].id # sourceId THEN srcs[i]
        ELSE [srcs[i] EXCEPT !.sheets =
                 [j \in DOMAIN srcs[i].sheets |->
                     IF srcs[i].sheets[j].type # "reference" /\ srcs[i].sheets[j].type # "unknown"
                     THEN [srcs[i].sheets[j] EXCEPT !.selected = selected]
                     ELSE srcs[i].sheets[j]]]]

getSelectedSheetNames(srcs) ==
    UNION {selectedNamesOf(srcs[i].sheets) : i \in {k \in DOMAIN srcs : srcs[k].status = "ready"}}

RECURSIVE flat(_)
\* Array.prototype.flat of a list of lists
flat(lists) == IF lists = <<>> THEN <<>> ELSE lists[1] \o flat(Tail(lists))

\* the map of lines 333-336 left out: the transactions are exposed as stored
resolvedAsStored(chosen, dictionary) == chosen

\* lines 333-336
resolved(chosen, dictionary) ==
    [k \in DOMAIN chosen |->
        [chosen[k] EXCEPT !.counterparty =
            resolveCounterpartyName(chosen[k].counterparty, dictionary)]]

\* lines 328-337
exposed(ready, selectedSheets, dictionary) ==
    flat([i \in DOMAIN ready |->
            resolved(SelectSeq(ready[i].transactions, LAMBDA t : t.sheet \in selectedSheets),
                     dictionary)])

getAllTransactions(srcs) ==
    exposed(readySources(srcs), getSelectedSheetNames(srcs), buildCounterpartyDictionary(srcs))

\* lines 144-152
initialFilters ==
    [dateFrom |-> NullDate, dateTo |-> NullDate, articles |-> <<>>, branches |-> <<>>,
     counterparties |-> <<>>, sheets |-> <<>>, direction |-> "all"]

\* lines 189-190: { ...state.filters, ...action.payload }
SET_FILTERS(current, payload) ==
    [k \in DOMAIN current |-> IF k \in DOMAIN payload THEN payload[k] ELSE current[k]]

\* lines 192-193
RESET_FILTERS(current) == initialFilters

\* the milliseconds of 23:59:59.999 after the local midnight (line 391)
EndOfDayMs == 86399999

\* the milliseconds of a Date after its local midnight: the dates the parser
\* builds are midnights, the dates of a filter or of a list given to
\* applyFilters may carry a time of day
msOf(date) == IF "ms" \in DOMAIN date THEN date.ms ELSE 0

\* a < b of two Dates
earlier(a, b) == a.day < b.day \/ (a.day = b.day /\ msOf(a) < msOf(b))

\* line 390 without line 391: the end of the day is the dateTo instant itself
endOfDayAsGiven(dateTo) == dateTo

\* lines 390-391: new Date(filters.dateTo) and setHours(23, 59, 59, 999)
endOfDay(dateTo) == [ok |-> TRUE, day |-> dateTo.day, ms |-> EndOfDayMs]

\* the callback of lines 387-402; a Date is truthy, null is not
keeps(t, f) ==
    IF f.dateFrom.ok /\ earlier(t.date, f.dateFrom) THEN FALSE
    ELSE IF f.dateTo.ok /\ earlier(endOfDay(f.dateTo), t.date) THEN FALSE
    ELSE IF Len(f.articles) > 0 /\ t.article \notin Range(f.articles) THEN FALSE
    ELSE IF Len(f.branches) > 0 /\ t.branch \notin Range(f.branches) THEN FALSE
    ELSE IF Len(f.counterparties) > 0 /\ t.counterparty \notin Range(f.counterparties) THEN FALSE
    ELSE IF Len(f.sheets) > 0 /\ t.sheet \notin Range(f.sheets) THEN FALSE
    ELSE IF f.direction # "all" /\ t.direction # f.direction THEN FALSE
    ELSE TRUE

RECURSIVE applyFilters(_, _)
\* lines 386-403
applyFilters(transactions, f) ==
    IF transactions = <<>> THEN <<>>
    ELSE IF keeps(transactions[1], f)
         THEN <<transactions[1]>> \o applyFilters(Tail(transactions), f)
         ELSE applyFilters(Tail(transactions), f)

(***************************************************************************)
(* The reference panel (part_000): a column of a sheet profile is loaded   *)
(* as the counterparties or the articles of a source.                      *)
(***************************************************************************)
\* the configuration of a panel before anything is chosen: null, which fails
\* the tests of lines 204 and 208 as a configuration of empty fields does
NoConfig == [sourceId |-> <<>>, sheetName |-> <<>>, columnName |-> <<>>]

\* config && config.sourceId && config.sheetName && config.columnName
complete(config) ==
    config.sourceId # <<>> /\ config.sheetName # <<>> /\ config.columnName # <<>>

\* Array.prototype.find: the first element that passes, as a list of at
\* most one element
firstThat(list, passes) ==
    IF \E i \in DOMAIN list : passes[i]
    THEN <<list[Min({i \in DOMAIN list : passes[i]})]>>
    ELSE <<>>

\* line 173: the first column whose lowered name includes the keyword
columnByKeyword(columns, keyword) ==
    firstThat(columns, [i \in DOMAIN columns |-> includes(toLowerCase(columns[i]), keyword)])

\* line 178: columnByKeyword || profile.columns[0] || ''
columnOr(found, columns) ==
    IF found # <<>> THEN found[1] ELSE IF columns # <<>> THEN columns[1] ELSE <<>>

\* lines 171-178 for the first profile of the first ready source
fallbackOf(source, profile, keyword) ==
    [sourceId |-> source.id, sheetName |-> profile.sheetName,
     columnName |-> columnOr(columnByKeyword(profile.columns, keyword), profile.columns)]

\* lines 161-179
buildFallbackConfig(ready, target) ==
    IF ready = <<>> THEN NoConfig
    ELSE IF ready[1].sheetProfiles = <<>> THEN NoConfig
    ELSE fallbackOf(ready[1], ready[1].sheetProfiles[1],
                    IF target = "counterparties" THEN <<"k", "o", "n", "t", "r", "a", "g", "e", "n", "t">> ELSE <<"s", "t", "a", "t", "ss", "ya">>)

\* lines 204-206
effectiveConfig(config, ready, target) ==
    IF complete(config) THEN config ELSE buildFallbackConfig(ready, target)

\* line 213: readySources.find(s => s.id === sourceId)
sourceOf(ready, sourceId) ==
    firstThat(ready, [i \in DOMAIN ready |-> ready[i].id = sourceId])

\* line 214: source?.sheetProfiles.find(sp => sp.sheetName === sheetName)
profileIn(found, sheetName) ==
    IF found = <<>> THEN <<>>
    ELSE firstThat(found[1].sheetProfiles,
                   [i \in DOMAIN found[1].sheetProfiles |->
                       found[1].sheetProfiles[i].sheetName = sheetName])

\* lines 193-196: profile.valuesByColumn[columnName] || [], each value
\* trimmed, the blank ones and the repetitions dropped
columnValues(profile, columnName) ==
    IF columnName \in DOMAIN profile.valuesByColumn
    THEN distinctInOrder(SelectSeq([i \in DOMAIN profile.valuesByColumn[columnName] |->
                                       trim(profile.valuesByColumn[columnName][i])],
                                   LAMBDA v : v # <<>>))
    ELSE <<>>

\* lines 187-197
getValuesForConfig(ready, config) ==
    IF profileIn(sourceOf(ready, config.sourceId), config.sheetName) = <<>> THEN <<>>
    ELSE columnValues(profileIn(sourceOf(ready, config.sourceId), config.sheetName)[1],
                      config.columnName)

\* lines 227-251: the update dispatched for the values
referenceUpdates(values, target) ==
    IF target = "counterparties"
    THEN [counterparties |-> [i \in DOMAIN values |-> [name |-> values[i]]]]
    ELSE [articles |-> [i \in DOMAIN values |->
                          [name |-> values[i], group |-> <<>>, activityType |-> <<>>,
                           comment |-> <<>>]]]

\* lines 208-251 for the effective configuration
applyEffective(srcs, ready, config, target) ==
    IF ~complete(config) THEN srcs
    ELSE IF profileIn(sourceOf(ready, config.sourceId), config.sheetName) = <<>> THEN srcs
    ELSE IF getValuesForConfig(ready, config) = <<>> THEN srcs
    ELSE UPDATE_SOURCE(srcs, sourceOf(ready, config.sourceId)[1].id,
                       referenceUpdates(getValuesForConfig(ready, config), target))

\* lines 200-254: the sources after the button of a panel is pressed
applyReferenceFromColumn(srcs, config, target) ==
    applyEffective(srcs, readySources(srcs),
                   effectiveConfig(config, readySources(srcs), target), target)

(***************************************************************************)
(* Specification SpecClean: cleanCounterparty applied to a raw value, and  *)
(* applied again to its own result by the report (GroupedReport.tsx:65).   *)
(***************************************************************************)
\* the longest raw value drawn, in words
MaxWords == 4

\* Ivanov / oplata (payment, a stop phrase) / OOO (an organizational form) /
\* Ivan followed by a comma
CleanWords ==
    { <<"I", "v", "a", "n", "o", "v">>,
      <<"o", "p", "l", "a", "t", "a">>,
      <<"O", "O", "O">>,
      <<"I", "v", "a", "n", ",">> }

CleanSeps == { <<" ">>, <<"\t">> }

RECURSIVE WordStrings(_)
\* the strings of n words of CleanWords separated by one of CleanSeps
WordStrings(n) ==
    IF n = 1 THEN CleanWords
    ELSE {s \o sep \o w : s \in WordStrings(n - 1), sep \in CleanSeps, w \in CleanWords}

\* OOO Romashka Dogovor No45 ot 01.01.24 (section 8, Example 2)
Example2Raw ==
    <<"O", "O", "O", " ", "R", "o", "m", "a", "sh", "k", "a", " ",
      "D", "o", "g", "o", "v", "o", "r", " ", "No", "4", "5", " ", "o", "t", " ",
      "0", "1", ".", "0", "1", ".", "2", "4">>

\* OOO Romashka
OOORomashka == <<"O", "O", "O", " ", "R", "o", "m", "a", "sh", "k", "a">>

\* Ivanov Ivan Ivanovich oplata uslug (section 8, Example 3)
Example3Raw ==
    <<"I", "v", "a", "n", "o", "v", " ", "I", "v", "a", "n", " ",
      "I", "v", "a", "n", "o", "v", "i", "ch", " ",
      "o", "p", "l", "a", "t", "a", " ", "u", "s", "l", "u", "g">>

\* Ivanov Ivan Ivanovich
IvanovIvanIvanovich ==
    <<"I", "v", "a", "n", "o", "v", " ", "I", "v", "a", "n", " ",
      "I", "v", "a", "n", "o", "v", "i", "ch">>

CleanInputs ==
    {<<>>, <<" ">>, <<"-">>, Example2Raw, Example3Raw}
        \cup UNION {WordStrings(n) : n \in 1..MaxWords}

NoCall == [fn |-> "none"]

NoRet == [done |-> FALSE]

AppIdle ==
    /\ sources = <<>>
    /\ pending = {}
    /\ globalId = 0
    /\ sourceIdCounter = 0
    /\ now = 0
    /\ filters = initialFilters

InitClean ==
    /\ AppIdle
    /\ call \in {[fn |-> "cleanCounterparty", raw |-> r] : r \in CleanInputs}
    /\ ret = NoRet

\* the resolver or the dictionary builder cleans a raw value
CleanCall ==
    /\ call.fn = "cleanCounterparty"
    /\ ~ret.done
    /\ ret' = [done |-> TRUE, again |-> FALSE, cleaned |-> cleanCounterparty(call.raw)]
    /\ UNCHANGED <<sources, pending, globalId, sourceIdCounter, now, filters, call>>

\* the report cleans the already cleaned name once more
CleanAgain ==
    /\ call.fn = "cleanCounterparty"
    /\ ret.done
    /\ ~ret.again
    /\ ret' = [done |-> TRUE, again |-> TRUE, cleaned |-> ret.cleaned,
               recleaned |-> cleanCounterparty(ret.cleaned)]
    /\ UNCHANGED <<sources, pending, globalId, sourceIdCounter, now, filters, call>>

NextClean == CleanCall \/ CleanAgain

SpecClean == InitClean /\ [][NextClean]_vars

(***************************************************************************)
(* Specification SpecLines: cleanCounterparty applied to a raw value of    *)
(* several lines, as the counterparty cell of a bank statement holds it.   *)
(***************************************************************************)
\* the most lines of a raw value drawn
MaxLines == 3

\* Spisanie (write-off) and Oplata uslug (payment for services): lines that
\* start with an operation word; Ivanov; OOO Romashka; Acme LLC; Smith Ltd
CleanLines ==
    { <<"S", "p", "i", "s", "a", "n", "i", "e">>,
      <<"O", "p", "l", "a", "t", "a", " ", "u", "s", "l", "u", "g">>,
      <<"I", "v", "a", "n", "o", "v">>,
      OOORomashka,
      <<"latA", "latc", "latm", "late", " ", "latL", "latL", "latC">>,
      <<"latS", "latm", "lati", "latt", "lath", " ", "latL", "latt", "latd">> }

RECURSIVE LineLists(_)
\* the lists of n of these lines
LineLists(n) ==
    IF n = 1 THEN {<<l>> : l \in CleanLines}
    ELSE {Append(ls, l) : ls \in LineLists(n - 1), l \in CleanLines}

InitLines ==
    /\ AppIdle
    /\ call \in {[fn |-> "cleanCounterparty", raw |-> join(ls, <<"\n">>), lines |-> ls] :
                    ls \in UNION {LineLists(n) : n \in 1..MaxLines}}
    /\ ret = NoRet

SpecLines == InitLines /\ [][NextClean]_vars

(***************************************************************************)
(* Specification SpecResolve: resolveCounterpartyName applied to a raw     *)
(* value and the dictionary built from a list of ready sources.            *)
(***************************************************************************)
\* the longest list of reference sources drawn
MaxRefSources == 2

\* Romashka OOO
RomashkaOOO == <<"R", "o", "m", "a", "sh", "k", "a", " ", "O", "O", "O">>

\* ooo romashka: OOO Romashka in small letters
OOORomashkaLower == <<"o", "o", "o", " ", "r", "o", "m", "a", "sh", "k", "a">>

\* Ivanov Romashka
IvanovRomashka == <<"I", "v", "a", "n", "o", "v", " ", "R", "o", "m", "a", "sh", "k", "a">>

\* Romashka
Romashka == <<"R", "o", "m", "a", "sh", "k", "a">>

\* IP Romashka
IPRomashka == <<"I", "P", " ", "R", "o", "m", "a", "sh", "k", "a">>

\* Romashka IP
RomashkaIP == <<"R", "o", "m", "a", "sh", "k", "a", " ", "I", "P">>

\* Romashka i Ivanov
RomashkaIIvanov == <<"R", "o", "m", "a", "sh", "k", "a", " ", "i", " ", "I", "v", "a", "n", "o", "v">>

\* Petrov
Petrov == <<"P", "e", "t", "r", "o", "v">>

\* the names a reference sheet holds; "-" is a name cleanCounterparty empties
RefNames == {OOORomashka, RomashkaOOO, OOORomashkaLower, IvanovRomashka, <<"-">>}

\* the raw counterparty cells of the journals
ResolveRaws ==
    RefNames \cup {<<>>, <<" ">>, <<" ", "\t">>, <<"-", " ">>, Romashka, IPRomashka,
                   RomashkaIP, RomashkaIIvanov, Petrov}

\* a ready source whose reference sheet holds the one name
refSource(name) == [status |-> "ready", counterparties |-> <<[name |-> name]>>]

RECURSIVE RefSourceLists(_)
\* the lists of n reference sources
RefSourceLists(n) ==
    IF n = 0 THEN {<<>>}
    ELSE {Append(l, refSource(name)) : l \in RefSourceLists(n - 1), name \in RefNames}

InitResolve ==
    /\ AppIdle
    /\ call \in {[fn |-> "resolveCounterpartyName", raw |-> r, sources |-> l] :
                    r \in ResolveRaws,
                    l \in UNION {RefSourceLists(n) : n \in 0..MaxRefSources}}
    /\ ret = NoRet

\* getAllTransactions builds the dictionary of the sources (line 326)
BuildCall ==
    /\ call.fn = "resolveCounterpartyName"
    /\ ~ret.done
    /\ "dictionary" \notin DOMAIN ret
    /\ ret' = [done |-> FALSE, dictionary |-> buildCounterpartyDictionary(call.sources)]
    /\ UNCHANGED <<sources, pending, globalId, sourceIdCounter, now, filters, call>>

\* and resolves a transaction's raw counterparty against it (line 335)
ResolveCall ==
    /\ call.fn = "resolveCounterpartyName"
    /\ ~ret.done
    /\ "dictionary" \in DOMAIN ret
    /\ ret' = [done |-> TRUE, dictionary |-> ret.dictionary,
               resolved |-> resolveCounterpartyName(call.raw, ret.dictionary)]
    /\ UNCHANGED <<sources, pending, globalId, sourceIdCounter, now, filters, call>>

NextResolve == BuildCall \/ ResolveCall

SpecResolve == InitResolve /\ [][NextResolve]_vars

(***************************************************************************)
(* Specification SpecDirection: getDirection applied to the article of a   *)
(* row and the article list of the workbook.                               *)
(***************************************************************************)
\* the longest article list drawn
MaxArticles == 2

\* Arenda: "rent"
Arenda == <<"A", "r", "e", "n", "d", "a">>

\* Dohod: "income"
Dohod == <<"D", "o", "h", "o", "d">>

\* the article cells of the journals, trimmed as the extractors pass them:
\* empty, Arenda, arenda, Dohod, Vklad, Poluchenie ot klienta
DirectionArticles ==
    { <<>>, Arenda, <<"a", "r", "e", "n", "d", "a">>, Dohod, <<"V", "k", "l", "a", "d">>,
      <<"P", "o", "l", "u", "ch", "e", "n", "i", "e", " ", "o", "t", " ", "k", "l", "i", "e", "n", "t", "a">> }

\* the group cells of a reference sheet: Postuplenie, Vybytie, vybytie, empty,
\* Prochee ("other"), Vybytie/Postuplenie
DirectionGroups ==
    { <<"P", "o", "s", "t", "u", "p", "l", "e", "n", "i", "e">>, <<"V", "y", "b", "y", "t", "i", "e">>, <<"v", "y", "b", "y", "t", "i", "e">>, <<>>, <<"P", "r", "o", "ch", "e", "e">>,
      <<"V", "y", "b", "y", "t", "i", "e", "/", "P", "o", "s", "t", "u", "p", "l", "e", "n", "i", "e">> }

\* the entries of a reference sheet: ARENDA and Dohod with each group
DirectionEntries ==
    {[name |-> n, group |-> g, activityType |-> <<>>, comment |-> <<>>] :
        n \in {<<"A", "R", "E", "N", "D", "A">>, Dohod}, g \in DirectionGroups}

RECURSIVE ArticleLists(_)
ArticleLists(n) ==
    IF n = 0 THEN {<<>>}
    ELSE {Append(l, e) : l \in ArticleLists(n - 1), e \in DirectionEntries}

InitDirection ==
    /\ AppIdle
    /\ call \in {[fn |-> "getDirection", article |-> a, articlesRef |-> l] :
                    a \in DirectionArticles,
                    l \in UNION {ArticleLists(n) : n \in 0..MaxArticles}}
    /\ ret = NoRet

\* an extractor infers the direction of a row (lines 380, 430, 602)
DirectionCall ==
    /\ call.fn = "getDirection"
    /\ ~ret.done
    /\ ret' = [done |-> TRUE, direction |-> getDirection(call.article, call.articlesRef)]
    /\ UNCHANGED <<sources, pending, globalId, sourceIdCounter, now, filters, call>>

NextDirection == DirectionCall

SpecDirection == InitDirection /\ [][NextDirection]_vars

(***************************************************************************)
(* Specification SpecParse: one of the three extractors applied to a grid  *)
(* of a header row and data rows, as parseWorkbook applies it.             *)
(***************************************************************************)
\* the most data rows a grid drawn holds
MaxRows == 2

\* date cells: blank, 15.01.2024
ParseDateCells == {Str(<<>>), Str(<<"1", "5", ".", "0", "1", ".", "2", "0", "2", "4">>)}

\* amount cells: blank, the numbers 0 and -250, the texts 1 500,50 and -0
ParseAmountCells == {Str(<<>>), Num(0), Num(-25000), Str(<<"1", " ", "5", "0", "0", ",", "5", "0">>), Str(<<"-", "0">>)}

\* article cells: blank, Dohod
ParseArticleCells == {Str(<<>>), Str(Dohod)}

\* the reference list the rows are read against: Dohod is a receipt
ParseArticles ==
    << [name |-> Dohod, group |-> <<"P", "o", "s", "t", "u", "p", "l", "e", "n", "i", "e">>, activityType |-> <<>>, comment |-> <<>>] >>

CashHeader ==
    <<Str(<<"D", "a", "t", "a", " ", "o", "p", "l", "a", "t", "y">>), Str(<<"K", "o", "sh", "e", "l", "yo", "k">>), Str(<<"S", "u", "m", "m", "a", " ", "v", " ", "r", "u", "b", "l", "ya", "h">>),
      Str(<<"S", "t", "a", "t", "ss", "ya", " ", "d", "o", "h", "o", "d", "a">>), Str(<<"K", "o", "n", "t", "r", "a", "g", "e", "n", "t">>)>>

BankHeader ==
    <<Str(<<"P", "e", "r", "i", "o", "d">>), Str(<<"D", "o", "k", "u", "m", "e", "n", "t">>), Str(<<"A", "n", "a", "l", "i", "t", "i", "k", "a", " ", "D", "t">>), Str(<<"A", "n", "a", "l", "i", "t", "i", "k", "a", " ", "K", "t">>),
      Str(<<"S", "u", "m", "m", "a", " ", "d", "l", "ya", " ", "D", "D", "S">>), Str(<<"S", "t", "a", "t", "ss", "ya">>)>>

FallbackHeader == <<Str(<<"latD", "lata", "latt", "late">>), Str(<<"I", "t", "o", "g", "o">>), Str(<<"K", "a", "t", "e", "g", "o", "r", "i", "ya">>), Str(<<"P", "o", "l", "u", "ch", "a", "t", "e", "l", "ss">>)>>

CashRow(date, amount, article) ==
    <<date, Str(<<"N", "a", "l", "i", "ch", "n", "y", "e">>), amount, article, Str(OOORomashka)>>

BankRow(date, amount, article) ==
    <<date, Str(<<"P", "P", " ", "1", "2">>), Str(<<"P", "o", "s", "t", "a", "v", "sch", "i", "k">>), Str(<<"K", "l", "i", "e", "n", "t">>), amount, article>>

FallbackRow(date, amount, article) == <<date, amount, article, Str(Petrov)>>

\* the three cells a row is drawn from
RowCells ==
    {<<d, a, s>> : d \in ParseDateCells, a \in ParseAmountCells, s \in ParseArticleCells}

RECURSIVE RowLists(_)
RowLists(n) ==
    IF n = 0 THEN {<<>>}
    ELSE {Append(l, r) : l \in RowLists(n - 1), r \in RowCells}

GridOf(fn, rows) ==
    IF fn = "parseCashJournal"
    THEN <<CashHeader>> \o [i \in DOMAIN rows |-> CashRow(rows[i][1], rows[i][2], rows[i][3])]
    ELSE IF fn = "parseBankJournal"
    THEN <<BankHeader>> \o [i \in DOMAIN rows |-> BankRow(rows[i][1], rows[i][2], rows[i][3])]
    ELSE <<FallbackHeader>> \o [i \in DOMAIN rows |-> FallbackRow(rows[i][1], rows[i][2], rows[i][3])]

Extractors == {"parseCashJournal", "parseBankJournal", "tryParseFallback"}

InitParse ==
    /\ AppIdle
    /\ call \in {[fn |-> f, data |-> GridOf(f, rows), sheetName |-> <<"L", "i", "s", "t", "1">>,
                  sourceName |-> <<"lata", ".", "latx", "latl", "lats", "latx">>, articlesRef |-> ParseArticles,
                  headerRowIndex |-> 0] :
                    f \in Extractors, rows \in UNION {RowLists(n) : n \in 0..MaxRows}}
    /\ ret = NoRet

\* what an extraction leaves behind: the transactions and the id counter
Extracted(result) ==
    /\ ret' = [done |-> TRUE, transactions |-> result.transactions]
    /\ globalId' = result.globalId
    /\ UNCHANGED <<sources, pending, sourceIdCounter, now, filters, call>>

CashCall ==
    /\ call.fn = "parseCashJournal"
    /\ ~ret.done
    /\ Extracted(parseCashJournal(call.data, call.sheetName, call.sourceName,
                                  call.articlesRef, call.headerRowIndex, globalId, now))

BankCall ==
    /\ call.fn = "parseBankJournal"
    /\ ~ret.done
    /\ Extracted(parseBankJournal(call.data, call.sheetName, call.sourceName,
                                  call.articlesRef, call.headerRowIndex, globalId, now))

FallbackCall ==
    /\ call.fn = "tryParseFallback"
    /\ ~ret.done
    /\ Extracted(tryParseFallback(call.data, call.sheetName, call.sourceName,
                                  call.articlesRef, call.headerRowIndex, globalId, now))

NextParse == CashCall \/ BankCall \/ FallbackCall

SpecParse == InitParse /\ [][NextParse]_vars

(***************************************************************************)
(* Specification SpecDefect: the three extractors applied to grids with    *)
(* defective rows (a date or an amount that does not parse) and with a     *)
(* column the header row does not name.                                    *)
(***************************************************************************)
\* date cells: 15.01.2024, vchera (yesterday)
DefectDateCells ==
    {Str(<<"1", "5", ".", "0", "1", ".", "2", "0", "2", "4">>), Str(<<"v", "ch", "e", "r", "a">>)}

\* amount cells: the number -250, the texts 1 500,50 and net (no)
DefectAmountCells ==
    {Num(-25000), Str(<<"1", " ", "5", "0", "0", ",", "5", "0">>), Str(<<"n", "e", "t">>)}

DefectRowCells ==
    {<<d, a, s>> : d \in DefectDateCells, a \in DefectAmountCells, s \in ParseArticleCells}

RECURSIVE DefectRowLists(_)
DefectRowLists(n) ==
    IF n = 0 THEN {<<>>}
    ELSE {Append(l, r) : l \in DefectRowLists(n - 1), r \in DefectRowCells}

\* the place of the date, amount and article cells in a row of GridOf
ColumnPosition(fn, column) ==
    IF column = "date" THEN 1
    ELSE IF fn = "parseCashJournal" THEN (IF column = "amount" THEN 3 ELSE 4)
    ELSE IF fn = "parseBankJournal" THEN (IF column = "amount" THEN 5 ELSE 6)
    ELSE (IF column = "amount" THEN 2 ELSE 3)

\* the grid with the header of the column left blank, so that no keyword
\* finds the column
Unnamed(fn, data, column) ==
    IF column = "none" THEN data
    ELSE [data EXCEPT ![1][ColumnPosition(fn, column)] = Str(<<>>)]

InitDefect ==
    /\ AppIdle
    /\ call \in {[fn |-> f, data |-> Unnamed(f, GridOf(f, rows), m), rows |-> rows, missing |-> m,
                  sheetName |-> <<"L", "i", "s", "t", "1">>,
                  sourceName |-> <<"lata", ".", "latx", "latl", "lats", "latx">>,
                  articlesRef |-> ParseArticles, headerRowIndex |-> 0] :
                    f \in Extractors, m \in {"none", "date", "amount", "article"},
                    rows \in UNION {DefectRowLists(n) : n \in 0..MaxRows}}
    /\ ret = NoRet

SpecDefect == InitDefect /\ [][NextParse]_vars

(***************************************************************************)
(* Specification SpecColumns: an extractor looks a column up by its        *)
(* keywords and reads the cell of a row under it.                          *)
(***************************************************************************)
\* the most headers of a header row drawn
MaxHeaders == 3

\* header texts: Data (date), Data oplaty (date of payment), summa in
\* capitals, Summa v rublyah (amount in roubles) over two lines, Statya
\* (article), a blank
ColumnHeaders ==
    { <<"D", "a", "t", "a">>,
      <<"D", "a", "t", "a", " ", "o", "p", "l", "a", "t", "y">>,
      <<"S", "U", "M", "M", "A">>,
      <<" ", "S", "u", "m", "m", "a", " ", " ", "v", "\n", "r", "u", "b", "l", "ya", "h">>,
      <<"S", "t", "a", "t", "ss", "ya">>,
      <<>> }

RECURSIVE HeaderLists(_)
\* the header rows of n of these texts
HeaderLists(n) ==
    IF n = 0 THEN {<<>>}
    ELSE {Append(hs, h) : hs \in HeaderLists(n - 1), h \in ColumnHeaders}

\* the keyword lists of the date and amount columns of parseCashJournal
\* (lines 357, 359) and of the amount column of parseFallbackGeneric
KeywordLists ==
    { <<<<"d", "a", "t", "a", " ", "o", "p", "l", "a", "t", "y">>, <<"d", "a", "t", "a", " ", "p", "o", "s", "t", "u", "p", "l", "e", "n", "i", "ya">>, <<"d", "a", "t", "a">>>>,
      <<<<"s", "u", "m", "m", "a", " ", "v", " ", "r", "u", "b", "l", "ya", "h">>, <<"s", "u", "m", "m", "a">>>>,
      <<<<"s", "u", "m", "m", "a">>, <<"lata", "latm", "lato", "latu", "latn", "latt">>, <<"i", "t", "o", "g", "o">>>> }

\* a row of data: a text with blanks around it, the number 150, the text 2,50
ColumnRow == <<Str(<<" ", "a", " ">>), Num(15000), Str(<<"2", ",", "5", "0">>)>>

InitColumns ==
    /\ AppIdle
    /\ call \in {[fn |-> "findColumnIndex", headers |-> hs, keywords |-> ks, row |-> ColumnRow] :
                    hs \in UNION {HeaderLists(n) : n \in 0..MaxHeaders}, ks \in KeywordLists}
    /\ ret = NoRet

\* what an extractor holds of a column: its position, and the text and the
\* amount it reads from a row under it
lookedUp(row, col) ==
    /\ ret' = [done |-> TRUE, index |-> col, text |-> field(row, col),
               amount |-> parseAmount(cellOr(row, col, Num(0)))]
    /\ UNCHANGED <<sources, pending, globalId, sourceIdCounter, now, filters, call>>

\* an extractor resolves a column and reads a row (lines 357-373, 382-397)
ColumnCall ==
    /\ call.fn = "findColumnIndex"
    /\ ~ret.done
    /\ lookedUp(call.row, findColumnIndex(call.headers, call.keywords))

NextColumns == ColumnCall

SpecColumns == InitColumns /\ [][NextColumns]_vars

(***************************************************************************)
(* Specification SpecRefSheet: parseReferenceSheet applied to a reference  *)
(* sheet whose header row and rows are drawn.                              *)
(***************************************************************************)
\* the most rows drawn below the header row of a reference sheet
MaxRefRows == 2

\* header cells: Statya DDS, Gruppa, Kontragent, Spravochnik kontragentov,
\* Primechanie (note)
RefHeaderCells ==
    { Str(<<"S", "t", "a", "t", "ss", "ya", " ", "D", "D", "S">>),
      Str(<<"G", "r", "u", "p", "p", "a">>),
      Str(<<"K", "o", "n", "t", "r", "a", "g", "e", "n", "t">>),
      Str(<<" ", "S", "p", "r", "a", "v", "o", "ch", "n", "i", "k", " ", " ", "k", "o", "n", "t", "r", "a", "g", "e", "n", "t", "o", "v">>),
      Str(<<"P", "r", "i", "m", "e", "ch", "a", "n", "i", "e">>) }

\* rows of three cells: names, names with blanks around them, blank and
\* missing cells, the title of the list repeated among the values
RefRows ==
    { <<Str(Arenda), Str(<<" ", "D", "o", "h", "o", "d", " ">>), Str(OOORomashka)>>,
      <<Str(<<>>), Str(OOORomashka), Str(<<" ">>)>>,
      <<Str(<<"S", "p", "r", "a", "v", "o", "ch", "n", "i", "k", " ", "s", "t", "a", "t", "e", "j">>), Str(<<>>), Str(<<"S", "P", "R", "A", "V", "O", "CH", "N", "I", "K", " ", "k", "o", "n", "t", "r", "a", "g", "e", "n", "t", "o", "v">>)>>,
      <<Str(OOORomashka), Str(Arenda)>>,
      <<Str(<<"I", "v", "a", "n", "o", "v">>), Str(<<"I", "v", "a", "n", "o", "v">>), Str(Arenda)>> }

RECURSIVE RefRowLists(_)
\* the lists of n of these rows
RefRowLists(n) ==
    IF n = 0 THEN {<<>>}
    ELSE {Append(l, r) : l \in RefRowLists(n - 1), r \in RefRows}

InitRefSheet ==
    /\ AppIdle
    /\ call \in {[fn |-> "parseReferenceSheet", data |-> <<<<h1, h2, h3>>>> \o rows, headerRowIndex |-> 0] :
                    h1 \in RefHeaderCells, h2 \in RefHeaderCells, h3 \in RefHeaderCells,
                    rows \in UNION {RefRowLists(n) : n \in 0..MaxRefRows}}
    /\ ret = NoRet

\* what parseReferenceSheet returns
referenceRead(ref) ==
    /\ ret' = [done |-> TRUE, articles |-> ref.articles, counterparties |-> ref.counterparties]
    /\ UNCHANGED <<sources, pending, globalId, sourceIdCounter, now, filters, call>>

\* parseWorkbook reads a reference sheet (line 525)
ReferenceSheetCall ==
    /\ call.fn = "parseReferenceSheet"
    /\ ~ret.done
    /\ referenceRead(parseReferenceSheet(call.data, call.headerRowIndex))

NextRefSheet == ReferenceSheetCall

SpecRefSheet == InitRefSheet /\ [][NextRefSheet]_vars

(***************************************************************************)
(* Specification SpecSheet: the functions parseWorkbook applies to a sheet *)
(* before it extracts anything, each applied to an input drawn.            *)
(***************************************************************************)
\* the most rows drawn after the leading rows of a grid
MaxGridRows == 3

\* rows of score 0: blanks, numbers and numerals, a single letter
BlankRow == <<Str(<<>>), Str(<<>>)>>

NumberRow == <<Num(10000), Str(<<"1", "2", ".", "5">>), Str(<<"latx">>)>>

\* a row of score 0.5: one text longer than a character
TextRow == <<Str(<<"O", "t", "ch", "yo", "t">>), Num(500)>>

\* two rows of score 2.5 each: one keyword text
DateKeyRow == <<Str(<<"D", "a", "t", "a">>), Num(100)>>

SumKeyRow == <<Num(200), Str(<<" ", "S", "u", "m", "m", "a", " ">>)>>

RowKinds == {BlankRow, NumberRow, TextRow, DateKeyRow, SumKeyRow, CashHeader}

RECURSIVE GridsOf(_)
\* the grids of n rows
GridsOf(n) ==
    IF n = 0 THEN {<<>>}
    ELSE {Append(g, r) : g \in GridsOf(n - 1), r \in RowKinds}

\* n times the row
Repeated(row, n) == [i \in 1..n |-> row]

\* the grids drawn: none, 9 or 10 leading rows of score 0 or 0.5, then up
\* to MaxGridRows rows
HeaderGrids ==
    {Repeated(lead, n) \o g :
        lead \in {BlankRow, TextRow}, n \in {0, 9, 10},
        g \in UNION {GridsOf(k) : k \in 0..MaxGridRows}}

\* sheet names drawn, each with the keyword groups whose markers it holds
NameCases ==
    {[name |-> <<"L", "i", "s", "t", "1">>, groups |-> {}],
     [name |-> <<"d", "d", "s", " ", "2", "0", "2", "4">>, groups |-> {}],
     [name |-> <<" ", "D", "D", "S", " ">>, groups |-> {"reference"}],
     [name |-> <<"S", "p", "r", "a", "v", "o", "ch", "n", "i", "k", " ", "k", "a", "s", "s", "a">>, groups |-> {"reference", "cash_journal"}],
     [name |-> <<"ZH", "u", "r", "n", "a", "l", " ", "s", "t", "a", "t", "ss", "i">>, groups |-> {"reference", "cash_journal"}],
     [name |-> <<"B", "a", "n", "k", " ", "latR", "late", "latf", "late", "latr", "late", "latn", "latc", "late">>, groups |-> {"reference", "bank_journal"}],
     [name |-> <<"K", "a", "s", "s", "a", " ", "b", "a", "n", "k">>, groups |-> {"cash_journal", "bank_journal"}],
     [name |-> <<"S", "ch", "yo", "t", " ", "M", "i", "r", "a">>, groups |-> {"cash_journal", "bank_journal"}],
     [name |-> <<"R", "S">>, groups |-> {"bank_journal"}],
     [name |-> <<"R", "\\", "S", " ", "1">>, groups |-> {"bank_journal"}]}

\* header rows drawn, each with the header patterns it satisfies
HeaderCases ==
    {[headers |-> <<>>, groups |-> {}],
     [headers |-> cellTexts(FallbackHeader), groups |-> {}],
     [headers |-> <<<<"S", "t", "a", "t", "ss", "ya", " ", "D", "D", "S">>, <<"S", "u", "m", "m", "a">>>>, groups |-> {}],
     [headers |-> cellTexts(CashHeader), groups |-> {"cash_journal", "heuristic"}],
     [headers |-> cellTexts(BankHeader), groups |-> {"bank_journal"}],
     [headers |-> <<<<"S", "t", "a", "t", "ss", "ya", " ", "D", "D", "S">>, <<"G", "r", "u", "p", "p", "a">>>>, groups |-> {"reference"}],
     [headers |-> <<<<" ", "S", "p", "r", "a", "v", "o", "ch", "n", "i", "k", "\n", "K", "o", "n", "t", "r", "a", "g", "e", "n", "t", "o", "v", " ">>>>, groups |-> {"reference"}],
     [headers |-> <<<<"S", "t", "a", "t", "ss", "ya", " ", "D", "D", "S">>, <<"G", "r", "u", "p", "p", "a">>, <<"K", "o", "sh", "e", "l", "e", "k">>>>, groups |-> {"reference", "cash_journal"}],
     [headers |-> <<<<"S", "p", "r", "a", "v", "o", "ch", "n", "i", "k", " ", "k", "o", "n", "t", "r", "a", "g", "e", "n", "t", "o", "v">>, <<"A", "n", "a", "l", "i", "t", "i", "k", "a", " ", "K", "t">>>>, groups |-> {"reference", "bank_journal"}],
     [headers |-> <<<<"D", "a", "t", "a", " ", "o", "p", "l", "a", "t", "y">>, <<"A", "n", "a", "l", "i", "t", "i", "k", "a", " ", "D", "t">>>>, groups |-> {"cash_journal", "bank_journal"}],
     [headers |-> <<<<"S", "t", "a", "t", "ss", "ya", " ", "D", "D", "S">>, <<"S", "u", "m", "m", "a", " ", "d", "l", "ya", " ", "D", "D", "S">>>>, groups |-> {"bank_journal"}],
     [headers |-> <<<<"D", "o", "k", "u", "m", "e", "n", "t">>, <<"D", "e", "b", "e", "t">>, <<"K", "r", "e", "d", "i", "t">>, <<"S", "t", "a", "t", "ss", "ya", " ", "r", "a", "s", "h", "o", "d", "a">>>>, groups |-> {"bank_journal", "heuristic"}],
     [headers |-> <<<<"S", "t", "a", "t", "ss", "ya", " ", "r", "a", "s", "h", "o", "d", "a">>, <<"S", "u", "m", "m", "a">>>>, groups |-> {"heuristic"}]}

TypeCalls ==
    {[fn |-> "detectSheetType", sheetName |-> n.name, nameGroups |-> n.groups,
      headers |-> h.headers, headerGroups |-> h.groups] : n \in NameCases, h \in HeaderCases}

\* what detectSheetType returns
typed(type) ==
    /\ ret' = [done |-> TRUE, type |-> type]
    /\ UNCHANGED <<sources, pending, globalId, sourceIdCounter, now, filters, call>>

\* parseWorkbook classifies a sheet (lines 522, 542)
SheetTypeCall ==
    /\ call.fn = "detectSheetType"
    /\ ~ret.done
    /\ typed(detectSheetType(call.sheetName, call.headers))

\* header rows of a profile: two names / a name repeated / a blank name /
\* a name repeated and the name the repetition is given
\* (Data: date, Summa: amount)
ProfileHeaderRows ==
    { <<Str(<<"D", "a", "t", "a">>), Str(<<"S", "u", "m", "m", "a">>)>>,
      <<Str(<<"S", "u", "m", "m", "a">>), Str(<<"S", "u", "m", "m", "a">>)>>,
      <<Str(<<"S", "u", "m", "m", "a">>), Str(<<>>)>>,
      <<Str(<<"S", "u", "m", "m", "a">>), Str(<<"S", "u", "m", "m", "a">>), Str(<<"S", "u", "m", "m", "a", " ", "(", "latB", ")">>)>> }

\* rows below the header: texts with blanks around them, blank and missing
\* cells, numbers, a zero
ProfileRows ==
    { <<Str(<<" ", "a", " ">>), Str(<<"b">>)>>,
      <<Str(<<"a">>), Str(<<>>)>>,
      <<Str(<<"b">>), Num(500), Str(<<"c">>)>>,
      <<Str(<<" ">>)>>,
      <<Num(0), Str(<<"a">>), Str(<<"a", "\t">>)>> }

RECURSIVE ProfileRowLists(_)
\* the lists of n of these rows
ProfileRowLists(n) ==
    IF n = 0 THEN {<<>>}
    ELSE {Append(l, r) : l \in ProfileRowLists(n - 1), r \in ProfileRows}

\* 2n rows holding n distinct values in the first column, every other row
\* repeating the first value
LongRows(n) ==
    [i \in 1..(2 * n) |->
        IF i % 2 = 1 THEN <<Num(100 * ((i + 1) \div 2)), Str(<<"a">>)>>
        ELSE <<Num(100), Str(<<" ", "a">>)>>]

\* grids of fewer distinct values than a profile keeps, as many, and more
LongGrids ==
    {<<<<Str(<<"D", "a", "t", "a">>), Str(<<"S", "u", "m", "m", "a">>)>>>> \o LongRows(n) :
        n \in {ProfileValuesLimit - 1, ProfileValuesLimit, ProfileValuesLimit + 2}}

\* the grids profiled: a header row, after a title row or not, and up to
\* MaxGridRows rows; the long grids
ProfileGrids ==
    {lead \o <<h>> \o rows :
        lead \in {<<>>, <<TextRow>>}, h \in ProfileHeaderRows,
        rows \in UNION {ProfileRowLists(n) : n \in 0..MaxGridRows}}
      \cup LongGrids

\* what parseWorkbook holds after lines 521 and 523
profiledAt(headerRowIndex, profile) ==
    /\ ret' = [done |-> TRUE, headerRowIndex |-> headerRowIndex, profile |-> profile]
    /\ UNCHANGED <<sources, pending, globalId, sourceIdCounter, now, filters, call>>

\* parseWorkbook profiles a sheet under the header row it found (lines 521-523)
ProfileCall ==
    /\ call.fn = "buildSheetProfile"
    /\ ~ret.done
    /\ profiledAt(findHeaderRow(call.data).headerRowIndex,
                  buildSheetProfile(call.data, findHeaderRow(call.data).headerRowIndex))

InitSheet ==
    /\ AppIdle
    /\ call \in {[fn |-> "findHeaderRow", data |-> g] : g \in HeaderGrids}
                   \cup TypeCalls
                   \cup {[fn |-> "buildSheetProfile", data |-> g] : g \in ProfileGrids}
    /\ ret = NoRet

\* what findHeaderRow returns
foundHeader(found) ==
    /\ ret' = [done |-> TRUE, headerRowIndex |-> found.headerRowIndex, headers |-> found.headers]
    /\ UNCHANGED <<sources, pending, globalId, sourceIdCounter, now, filters, call>>

\* parseWorkbook looks for the header row of a sheet (lines 521, 541)
HeaderRowCall ==
    /\ call.fn = "findHeaderRow"
    /\ ~ret.done
    /\ foundHeader(findHeaderRow(call.data))

NextSheet == HeaderRowCall \/ SheetTypeCall \/ ProfileCall

SpecSheet == InitSheet /\ [][NextSheet]_vars

(***************************************************************************)
(* Specification SpecWorkbook: parseWorkbook applied to a workbook drawn:  *)
(* a sheet of no known type, with or without a cash journal behind it.     *)
(***************************************************************************)
\* the most data rows of the sheet drawn
MaxSheetRows == 2

\* header rows of a sheet of no known type: a date and an amount column,
\* neither, a date column only, an amount column only
PlainHeaders ==
    {FallbackHeader,
     <<Str(<<"I", "m", "ya">>), Str(<<"G", "o", "r", "o", "d">>), Str(<<"K", "a", "t", "e", "g", "o", "r", "i", "ya">>), Str(<<"P", "o", "l", "u", "ch", "a", "t", "e", "l", "ss">>)>>,
     <<Str(<<"D", "a", "t", "a">>), Str(<<"G", "o", "r", "o", "d">>), Str(<<"K", "a", "t", "e", "g", "o", "r", "i", "ya">>), Str(<<"P", "o", "l", "u", "ch", "a", "t", "e", "l", "ss">>)>>,
     <<Str(<<"I", "m", "ya">>), Str(<<"I", "t", "o", "g", "o">>), Str(<<"K", "a", "t", "e", "g", "o", "r", "i", "ya">>), Str(<<"P", "o", "l", "u", "ch", "a", "t", "e", "l", "ss">>)>>}

\* data rows: the first cell blank or a date, the second blank, 300 or -5
PlainRows ==
    {<<d, a, Str(<<"P", "r", "o", "ch", "e", "e">>), Str(Petrov)>> :
        d \in {Str(<<>>), Str(<<"1", "8", ".", "0", "1", ".", "2", "0", "2", "4">>)},
        a \in {Str(<<>>), Str(<<"3", "0", "0">>), Num(-500)}}

RECURSIVE PlainRowLists(_)
PlainRowLists(n) ==
    IF n = 0 THEN {<<>>}
    ELSE {Append(l, r) : l \in PlainRowLists(n - 1), r \in PlainRows}

PlainGrids ==
    {<<h>> \o rows : h \in PlainHeaders, rows \in UNION {PlainRowLists(n) : n \in 0..MaxSheetRows}}

\* a cash journal of one row
CashGrid == <<CashHeader, CashRow(Str(<<"1", "5", ".", "0", "1", ".", "2", "0", "2", "4">>), Num(150000), Str(Dohod))>>

\* the workbook of the sheet List1 alone, and with the cash journal behind it
PlainBook(grid) ==
    [SheetNames |-> <<<<"L", "i", "s", "t", "1">>>>, SheetMeta |-> <<>>, Sheets |-> (<<"L", "i", "s", "t", "1">> :> grid)]

PlainAndCashBook(grid) ==
    [SheetNames |-> <<<<"L", "i", "s", "t", "1">>, <<"K", "a", "s", "s", "a">>>>,
     SheetMeta |-> <<>>,
     Sheets |-> (<<"L", "i", "s", "t", "1">> :> grid) @@ (<<"K", "a", "s", "s", "a">> :> CashGrid)]

Workbooks == {PlainBook(g) : g \in PlainGrids} \cup {PlainAndCashBook(g) : g \in PlainGrids}

InitWorkbook ==
    /\ AppIdle
    /\ call \in {[fn |-> "parseWorkbook", workbook |-> w, sourceName |-> <<"latc", ".", "latx", "latl", "lats", "latx">>] : w \in Workbooks}
    /\ ret = NoRet

\* what parseWorkbook returns and the id counter it leaves
parsedWorkbook(result) ==
    /\ ret' = [done |-> TRUE, sheets |-> result.sheets, transactions |-> result.transactions,
               articles |-> result.articles, counterparties |-> result.counterparties,
               sheetProfiles |-> result.sheetProfiles]
    /\ globalId' = result.globalId
    /\ UNCHANGED <<sources, pending, sourceIdCounter, now, filters, call>>

\* the loader parses the workbook read (part_003:634)
ParseWorkbookCall ==
    /\ call.fn = "parseWorkbook"
    /\ ~ret.done
    /\ parsedWorkbook(parseWorkbook(call.workbook, call.sourceName, globalId, now))

NextWorkbook == ParseWorkbookCall

SpecWorkbook == InitWorkbook /\ [][NextWorkbook]_vars

(***************************************************************************)
(* Specification SpecBooks: parseWorkbook applied to a workbook of up to   *)
(* MaxSheets sheets, reference sheets and journals in any order, one of    *)
(* them hidden or none.                                                    *)
(***************************************************************************)
\* the most sheets of a workbook drawn
MaxSheets == 3

DateCell == Str(<<"1", "5", ".", "0", "1", ".", "2", "0", "2", "4">>)

\* the sheets a workbook is drawn from.  Spravochnik lists Arenda (rent) as
\* a receipt and the counterparty OOO Romashka; List2 lists Arenda and
\* Dohod as disbursements and has no counterparty column; List3 lists the
\* counterparty Petrov and has no article column; Stati holds no row;
\* Kassa, Bank and List1 are a cash journal, a bank journal and a sheet of
\* no known type with rows of the articles Arenda and Dohod
BookSheets ==
    { [name |-> <<"S", "p", "r", "a", "v", "o", "ch", "n", "i", "k">>,
       grid |-> << <<Str(<<"S", "t", "a", "t", "ss", "ya", " ", "D", "D", "S">>), Str(<<"G", "r", "u", "p", "p", "a">>), Str(<<"S", "p", "r", "a", "v", "o", "ch", "n", "i", "k", " ", "k", "o", "n", "t", "r", "a", "g", "e", "n", "t", "o", "v">>)>>,
                   <<Str(Arenda), Str(<<"P", "o", "s", "t", "u", "p", "l", "e", "n", "i", "e">>), Str(OOORomashka)>> >>],
      [name |-> <<"L", "i", "s", "t", "2">>,
       grid |-> << <<Str(<<"S", "t", "a", "t", "ss", "ya", " ", "D", "D", "S">>), Str(<<"G", "r", "u", "p", "p", "a">>)>>,
                   <<Str(Arenda), Str(<<"V", "y", "b", "y", "t", "i", "e">>)>>,
                   <<Str(Dohod), Str(<<"V", "y", "b", "y", "t", "i", "e">>)>> >>],
      [name |-> <<"L", "i", "s", "t", "3">>,
       grid |-> << <<Str(<<"S", "p", "r", "a", "v", "o", "ch", "n", "i", "k", " ", "k", "o", "n", "t", "r", "a", "g", "e", "n", "t", "o", "v">>)>>, <<Str(Petrov)>> >>],
      [name |-> <<"S", "t", "a", "t", "ss", "i">>, grid |-> <<>>],
      [name |-> <<"K", "a", "s", "s", "a">>,
       grid |-> <<CashHeader, CashRow(DateCell, Num(150000), Str(Arenda)),
                  CashRow(DateCell, Num(10000), Str(Dohod))>>],
      [name |-> <<"B", "a", "n", "k">>,
       grid |-> <<BankHeader, BankRow(DateCell, Num(70000), Str(Arenda))>>],
      [name |-> <<"L", "i", "s", "t", "1">>,
       grid |-> <<FallbackHeader, FallbackRow(DateCell, Str(<<"3", "0", "0">>), Str(Arenda))>>] }

RECURSIVE SheetLists(_)
\* the lists of n of these sheets, no sheet twice
SheetLists(n) ==
    IF n = 0 THEN {<<>>}
    ELSE UNION {{Append(l, s) : s \in BookSheets \ Range(l)} : l \in SheetLists(n - 1)}

\* the workbook of the sheets, the one at position hiddenAt hidden; without
\* the flags of the file when hiddenAt is 0
BookOf(listed, hiddenAt) ==
    [SheetNames |-> [i \in DOMAIN listed |-> listed[i].name],
     SheetMeta |-> IF hiddenAt = 0 THEN <<>>
                   ELSE [i \in DOMAIN listed |-> [Hidden |-> IF i = hiddenAt THEN 1 ELSE 0]],
     Sheets |-> [n \in {listed[i].name : i \in DOMAIN listed} |->
                    listed[CHOOSE i \in DOMAIN listed : listed[i].name = n].grid]]

Books ==
    UNION {{BookOf(l, h) : l \in SheetLists(n), h \in 0..n} : n \in 1..MaxSheets}

InitBooks ==
    /\ AppIdle
    /\ call \in {[fn |-> "parseWorkbook", workbook |-> w, sourceName |-> <<"lata", ".", "latx", "latl", "lats", "latx">>] : w \in Books}
    /\ ret = NoRet

SpecBooks == InitBooks /\ [][NextWorkbook]_vars

(***************************************************************************)
(* Specification SpecFilter: the filters of the sidebar set and reset, and *)
(* the provider filtering a list of transactions on every render           *)
(* (AppContext.tsx:427).                                                   *)
(***************************************************************************)
\* the most transactions of the list drawn
MaxTransactions == 2

\* 15 January 2024 and the days around it
FilterDay == newDate(2024, 0, 15)

\* a Date of the day so many days after FilterDay, ms after its midnight
DateAt(days, ms) == [ok |-> TRUE, day |-> FilterDay.day + days, ms |-> ms]

\* Centr (centre) / Filial (branch office)
Centr == <<"C", "e", "n", "t", "r">>

Filial == <<"F", "i", "l", "i", "a", "l">>

\* Klient (client) / Postavshchik (supplier)
Klient == <<"K", "l", "i", "e", "n", "t">>

Postavshchik == <<"P", "o", "s", "t", "a", "v", "sch", "i", "k">>

\* Kassa (cash) / Vypiska (statement): sheet names
Kassa == <<"K", "a", "s", "s", "a">>

Vypiska == <<"V", "y", "p", "i", "s", "k", "a">>

\* the fields of a Transaction that applyFilters reads, and its id
FilterTransactions ==
    { [id |-> <<"t", "1">>, date |-> DateAt(-1, 0), article |-> Dohod, branch |-> Centr,
       counterparty |-> Klient, sheet |-> Kassa, direction |-> "in"],
      [id |-> <<"t", "2">>, date |-> DateAt(0, 0), article |-> Arenda, branch |-> Centr,
       counterparty |-> Postavshchik, sheet |-> Kassa, direction |-> "out"],
      [id |-> <<"t", "3">>, date |-> DateAt(0, EndOfDayMs), article |-> Dohod, branch |-> Filial,
       counterparty |-> Klient, sheet |-> Vypiska, direction |-> "in"],
      [id |-> <<"t", "4">>, date |-> DateAt(1, 0), article |-> Arenda, branch |-> Filial,
       counterparty |-> Postavshchik, sheet |-> Vypiska, direction |-> "out"],
      [id |-> <<"t", "5">>, date |-> DateAt(0, 1), article |-> Dohod, branch |-> Centr,
       counterparty |-> Postavshchik, sheet |-> Vypiska, direction |-> "out"] }

RECURSIVE TransactionLists(_)
\* the lists of n of these transactions
TransactionLists(n) ==
    IF n = 0 THEN {<<>>}
    ELSE {Append(l, t) : l \in TransactionLists(n - 1), t \in FilterTransactions}

\* the dates a filter is given: none, the midnight of a day as the date inputs
\* and the presets build it (FilterSidebar.tsx:152-162, 321-337), and a Date
\* with a time of day
FilterDates == {NullDate, DateAt(-1, 0), DateAt(0, 0), DateAt(0, 1)}

\* the payloads of SET_FILTERS the sidebar dispatches (FilterSidebar.tsx:243,
\* 286, 340, 360, 378, 388, 399)
FilterPayloads ==
    {[dateFrom |-> d] : d \in FilterDates}
        \cup {[dateTo |-> d] : d \in FilterDates}
        \cup {[dateFrom |-> DateAt(-1, 0), dateTo |-> DateAt(0, 0)]}
        \cup {[direction |-> d] : d \in {"all", "in", "out"}}
        \cup {[articles |-> l] : l \in {<<>>, <<Dohod>>, <<Arenda, Dohod>>}}
        \cup {[branches |-> l] : l \in {<<>>, <<Filial>>}}
        \cup {[counterparties |-> l] : l \in {<<>>, <<Klient>>}}
        \cup {[sheets |-> l] : l \in {<<>>, <<Kassa>>}}

InitFilter ==
    /\ AppIdle
    /\ call \in {[fn |-> "applyFilters", transactions |-> l] :
                    l \in UNION {TransactionLists(n) : n \in 0..MaxTransactions}}
    /\ ret = NoRet

\* the provider renders with the filters it is given (line 427)
rendered(transactions, f) ==
    [done |-> TRUE, filteredTransactions |-> applyFilters(transactions, f)]

\* the sidebar dispatches SET_FILTERS and the provider renders
SetFilters ==
    \E payload \in FilterPayloads :
        /\ filters' = SET_FILTERS(filters, payload)
        /\ ret' = rendered(call.transactions, filters')
        /\ UNCHANGED <<sources, pending, globalId, sourceIdCounter, now, call>>

\* the sidebar dispatches RESET_FILTERS and the provider renders
ResetFilters ==
    /\ filters' = RESET_FILTERS(filters)
    /\ ret' = rendered(call.transactions, filters')
    /\ UNCHANGED <<sources, pending, globalId, sourceIdCounter, now, call>>

NextFilter == SetFilters \/ ResetFilters

SpecFilter == InitFilter /\ [][NextFilter]_vars

(***************************************************************************)
(* Specification Spec: the application.  Files are dropped on the upload   *)
(* area (addSource, part_000), their loads settle in any order, sources    *)
(* are removed, the clock advances.                                        *)
(***************************************************************************)
\* the most sources added in a run
MaxSources == 2

\* the latest reading of the clock
MaxNow == 1

\* a.xlsx: a reference sheet (articles Dohod and Arenda; counterparties OOO
\* Romashka, Romashka, IP Petrov) and a cash journal of three rows, the
\* last one blank
BookA ==
    [SheetNames |-> <<<<"S", "p", "r", "a", "v", "o", "ch", "n", "i", "k">>, <<"K", "a", "s", "s", "a">>>>,
     SheetMeta |-> <<>>,
     Sheets |->
        (<<"S", "p", "r", "a", "v", "o", "ch", "n", "i", "k">> :>
            << <<Str(<<"S", "t", "a", "t", "ss", "ya", " ", "D", "D", "S">>), Str(<<"G", "r", "u", "p", "p", "a">>), Str(<<"S", "p", "r", "a", "v", "o", "ch", "n", "i", "k", " ", "k", "o", "n", "t", "r", "a", "g", "e", "n", "t", "o", "v">>)>>,
               <<Str(Dohod), Str(<<"P", "o", "s", "t", "u", "p", "l", "e", "n", "i", "e">>), Str(OOORomashka)>>,
               <<Str(Arenda), Str(<<"V", "y", "b", "y", "t", "i", "e">>), Str(Romashka)>>,
               <<Str(<<>>), Str(<<>>), Str(<<"I", "P", " ", "P", "e", "t", "r", "o", "v">>)>> >>)
        @@
        (<<"K", "a", "s", "s", "a">> :>
            << CashHeader,
               <<Str(<<"1", "5", ".", "0", "1", ".", "2", "0", "2", "4">>), Str(<<"N", "a", "l", "i", "ch", "n", "y", "e">>), Num(150000), Str(Dohod), Str(<<"r", "o", "m", "a", "sh", "k", "a">>)>>,
               <<Str(<<"1", "6", ".", "0", "1", ".", "2", "0", "2", "4">>), Str(<<>>), Str(<<"-", "2", "5", "0", ",", "0", "0">>), Str(Arenda), Str(<<"I", "P", " ", "P", "E", "T", "R", "O", "V">>)>>,
               <<Str(<<>>), Str(<<>>), Num(0), Str(<<>>), Str(<<>>)>> >>)]

\* b.xlsx: a bank journal of two rows ahead of a reference sheet that lists
\* the counterparties ROMASHKA and ip petrov and no article
BookB ==
    [SheetNames |-> <<<<"B", "a", "n", "k">>, <<"S", "p", "r", "a", "v", "o", "ch", "n", "i", "k">>>>,
     SheetMeta |-> <<[Hidden |-> 0], [Hidden |-> 0]>>,
     Sheets |->
        (<<"B", "a", "n", "k">> :>
            << BankHeader,
               <<Str(<<"1", "7", ".", "0", "1", ".", "2", "0", "2", "4">>), Str(<<"P", "P", " ", "1", "2">>), Str(<<"P", "o", "s", "t", "a", "v", "sch", "i", "k">>), Str(Romashka),
                 Num(70000), Str(Dohod)>>,
               <<Num(4530900), Str(<<"P", "P", " ", "1", "3">>), Str(<<"P", "o", "s", "t", "a", "v", "sch", "i", "k">>), Str(<<"i", "p", " ", "P", "e", "t", "r", "o", "v">>),
                 Str(<<"1", " ", "5", "0", "0", ",", "5", "0">>), Str(Dohod)>> >>)
        @@
        (<<"S", "p", "r", "a", "v", "o", "ch", "n", "i", "k">> :>
            << <<Str(<<"S", "p", "r", "a", "v", "o", "ch", "n", "i", "k", " ", "k", "o", "n", "t", "r", "a", "g", "e", "n", "t", "o", "v">>)>>,
               <<Str(<<"R", "O", "M", "A", "SH", "K", "A">>)>>,
               <<Str(<<"i", "p", " ", "p", "e", "t", "r", "o", "v">>)>> >>)]

\* c.xlsx: one sheet of no recognizable name or header set, which the
\* fallback reads, and a hidden sheet
BookC ==
    [SheetNames |-> <<<<"L", "i", "s", "t", "1">>, <<"A", "r", "h", "i", "v">>>>,
     SheetMeta |-> <<[Hidden |-> 0], [Hidden |-> 1]>>,
     Sheets |->
        (<<"L", "i", "s", "t", "1">> :>
            << FallbackHeader,
               <<Str(<<"1", "8", ".", "0", "1", ".", "2", "0", "2", "4">>), Str(<<"3", "0", "0">>), Str(<<"P", "r", "o", "ch", "e", "e">>), Str(Petrov)>> >>)
        @@
        (<<"A", "r", "h", "i", "v">> :> << CashHeader >>)]

NoBook == [SheetNames |-> <<>>, SheetMeta |-> <<>>, Sheets |-> <<>>]

\* e.xlsx: a workbook whose only sheet holds no row
EmptyBook ==
    [SheetNames |-> <<<<"L", "i", "s", "t", "1">>>>, SheetMeta |-> <<>>, Sheets |-> (<<"L", "i", "s", "t", "1">> :> <<>>)]

\* what is offered: four workbooks and a file XLSX.read rejects on the
\* upload area, and the link of a Google Sheet whose fetch fails; fault is
\* the message of the error thrown, empty when nothing is thrown
Files ==
    { [name |-> <<"lata", ".", "latx", "latl", "lats", "latx">>, loader |-> "file", fault |-> <<>>, workbook |-> BookA],
      [name |-> <<"latb", ".", "latx", "latl", "lats", "latx">>, loader |-> "file", fault |-> <<>>, workbook |-> BookB],
      [name |-> <<"latc", ".", "latx", "latl", "lats", "latx">>, loader |-> "file", fault |-> <<>>, workbook |-> BookC],
      [name |-> <<"late", ".", "latx", "latl", "lats", "latx">>, loader |-> "file", fault |-> <<>>, workbook |-> EmptyBook],
      [name |-> <<"latx", ".", "latx", "latl", "lats", "latx">>, loader |-> "file", fault |-> <<"latU", "latn", "lats", "latu", "latp", "latp", "lato", "latr", "latt", "late", "latd", " ", "latf", "lati", "latl", "late">>, workbook |-> NoBook],
      [name |-> <<"Z", "a", "g", "r", "u", "z", "k", "a", " ", "latG", "lato", "lato", "latg", "latl", "late", " ", "latS", "lath", "late", "late", "latt", ".", ".", ".">>, loader |-> "google_sheets",
       fault |-> <<"O", "sh", "i", "b", "k", "a", " ", "latC", "latO", "latR", "latS", ".", " ", "P", "o", "p", "r", "o", "b", "u", "j", "t", "e", " ", "s", "k", "a", "ch", "a", "t", "ss", " ", "f", "a", "j", "l", " ", "k", "a", "k", " ", ".", "latx", "latl", "lats", "latx", " ", "i", " ", "z", "a", "g", "r", "u", "z", "i", "t", "ss", " ", "v", "r", "u", "ch", "n", "u", "yu", ".">>,
       workbook |-> NoBook] }

Init ==
    /\ AppIdle
    /\ call = NoCall
    /\ ret = NoRet

\* part_000:24-39: the source is listed as loading under its new id
listLoading(id, file) ==
    /\ sources' = ADD_SOURCE(sources,
                     [id |-> id, name |-> file.name, type |-> file.loader, status |-> "loading",
                      sheets |-> <<>>, transactions |-> <<>>, articles |-> <<>>,
                      counterparties |-> <<>>, sheetProfiles |-> <<>>])
    /\ pending' = pending \cup {[id |-> id, file |-> file]}

\* addSource up to its await (part_000:24-42), called for a file dropped
\* (74-80) or a link entered (90-95): the source is listed as loading and
\* its load is under way
AddSource ==
    \E file \in Files :
        /\ sourceIdCounter < MaxSources
        /\ sourceIdCounter' = sourceIdCounter + 1
        /\ listLoading(<<"src", sourceIdCounter + 1, now>>, file)
        /\ UNCHANGED <<globalId, now, filters, call, ret>>

\* part_000:43-59: the source, if still listed, becomes ready
resolveLoad(p, result) ==
    /\ globalId' = result.globalId
    /\ sources' = UPDATE_SOURCE(sources, p.id,
                     [status |-> "ready",
                      sheets |-> [i \in DOMAIN result.sheets |->
                                    [result.sheets[i] EXCEPT !.sourceId = p.id]],
                      transactions |-> result.transactions,
                      articles |-> result.articles,
                      counterparties |-> result.counterparties,
                      sheetProfiles |-> result.sheetProfiles,
                      name |-> result.name])
    /\ pending' = pending \ {p}
    /\ UNCHANGED <<sourceIdCounter, now, filters, call, ret>>

\* the load resolves (parseExcelFile, part_003:630-634, then part_000:43-59):
\* the workbook is parsed and the source, if still listed, becomes ready
LoadOk ==
    \E p \in pending :
        /\ p.file.fault = <<>>
        /\ resolveLoad(p, parseWorkbook(p.file.workbook, p.file.name, globalId, now))

\* rejectLoad marking every source listed, not the one of the load
rejectLoadEvery(p, message) ==
    /\ sources' = [i \in DOMAIN sources |->
                      merge(sources[i], [status |-> "error", error |-> message])]
    /\ pending' = pending \ {p}
    /\ UNCHANGED <<globalId, sourceIdCounter, now, filters, call, ret>>

\* part_000:60-70
rejectLoad(p, message) ==
    /\ sources' = UPDATE_SOURCE(sources, p.id, [status |-> "error", error |-> message])
    /\ pending' = pending \ {p}
    /\ UNCHANGED <<globalId, sourceIdCounter, now, filters, call, ret>>

\* the message of the error the loader throws: parseExcelFile wraps what
\* XLSX.read throws and reports a reader failure (part_003:636, 639),
\* parseGoogleSheet throws its own message (part_003:653, 662, 673)
loaderMessage(file) ==
    IF file.loader = "google_sheets" THEN file.fault
    ELSE IF file.fault # <<>>
    THEN <<"O", "sh", "i", "b", "k", "a", " ", "p", "a", "r", "s", "i", "n", "g", "a", " ", "f", "a", "j", "l", "a", ":", " ">> \o file.fault
    ELSE <<"O", "sh", "i", "b", "k", "a", " ", "ch", "t", "e", "n", "i", "ya", " ", "f", "a", "j", "l", "a">>

\* the load rejects (part_003:635-639 and 651-677, then part_000:60-70):
\* XLSX.read throws on the bytes, the reader fails on any file, or the
\* fetch of the Google Sheet fails
LoadFail ==
    \E p \in pending :
        /\ p.file.loader = "google_sheets" => p.file.fault # <<>>
        /\ rejectLoad(p, loaderMessage(p.file))

\* removeSource (part_000:97-99)
RemoveSource ==
    \E i \in DOMAIN sources :
        /\ sources' = REMOVE_SOURCE(sources, sources[i].id)
        /\ UNCHANGED <<pending, globalId, sourceIdCounter, now, filters, call, ret>>

\* part_000:553: the sheets of a source that the selection panel lists
journalsOf(source) ==
    SelectSeq(source.sheets, LAMBDA sh : sh.type = "cash_journal" \/ sh.type = "bank_journal")

\* part_000:556
allSelected(journals) == \A k \in DOMAIN journals : journals[k].selected

\* the box of a journal of a ready source is clicked (part_000:597-603)
ToggleSheet ==
    \E i \in DOMAIN sources :
        /\ sources[i].status = "ready"
        /\ \E sheetName \in {journalsOf(sources[i])[k].name : k \in DOMAIN journalsOf(sources[i])} :
              sources' = TOGGLE_SHEET_SELECTION(sources, sources[i].id, sheetName)
        /\ UNCHANGED <<pending, globalId, sourceIdCounter, now, filters, call, ret>>

\* the box of all journals of a ready source is clicked (part_000:570-576)
SetAllSheets ==
    \E i \in DOMAIN sources :
        /\ sources[i].status = "ready"
        /\ journalsOf(sources[i]) # <<>>
        /\ sources' = SET_ALL_SHEETS_SELECTION(sources, sources[i].id,
                                               ~allSelected(journalsOf(sources[i])))
        /\ UNCHANGED <<pending, globalId, sourceIdCounter, now, filters, call, ret>>

\* time passes
Tick ==
    /\ now < MaxNow
    /\ now' = now + 1
    /\ UNCHANGED <<sources, pending, globalId, sourceIdCounter, filters, call, ret>>

Next ==
    \/ AddSource
    \/ LoadOk
    \/ LoadFail
    \/ RemoveSource
    \/ ToggleSheet
    \/ SetAllSheets
    \/ Tick

Spec == Init /\ [][Next]_vars

(***************************************************************************)
(* Specification SpecArticles: workbooks with article lists of their own   *)
(* are added, loaded and removed, and the button of the articles panel     *)
(* replaces the article list of a ready source by a column of a sheet.     *)
(***************************************************************************)
\* the sheet of BookSheets of the name
SheetNamed(n) == CHOOSE s \in BookSheets : s.name = n

\* d.xlsx: the cash journal ahead of the reference sheet that lists Arenda
\* as a receipt; f.xlsx: the reference sheet that lists Arenda and Dohod as
\* disbursements, then the cash journal; g.xlsx: the bank journal alone
ArticleFiles ==
    { [name |-> <<"latd", ".", "latx", "latl", "lats", "latx">>, loader |-> "file", fault |-> <<>>,
       workbook |-> BookOf(<<SheetNamed(<<"K", "a", "s", "s", "a">>), SheetNamed(<<"S", "p", "r", "a", "v", "o", "ch", "n", "i", "k">>)>>, 0)],
      [name |-> <<"latf", ".", "latx", "latl", "lats", "latx">>, loader |-> "file", fault |-> <<>>,
       workbook |-> BookOf(<<SheetNamed(<<"L", "i", "s", "t", "2">>), SheetNamed(<<"K", "a", "s", "s", "a">>)>>, 0)],
      [name |-> <<"latg", ".", "latx", "latl", "lats", "latx">>, loader |-> "file", fault |-> <<>>,
       workbook |-> BookOf(<<SheetNamed(<<"B", "a", "n", "k">>)>>, 0)] }

\* addSource up to its await (part_000:24-42) for one of these files
AddBook ==
    \E file \in ArticleFiles :
        /\ sourceIdCounter < MaxSources
        /\ sourceIdCounter' = sourceIdCounter + 1
        /\ listLoading(<<"src", sourceIdCounter + 1, now>>, file)
        /\ UNCHANGED <<globalId, now, filters, call, ret>>

\* the button of the articles panel is pressed with a source, a sheet of it
\* and a column of the sheet chosen (part_000:529)
OverrideArticles ==
    \E i \in DOMAIN sources :
        \E j \in DOMAIN sources[i].sheetProfiles :
            \E c \in DOMAIN sources[i].sheetProfiles[j].columns :
                /\ sources' = applyReferenceFromColumn(sources,
                                 [sourceId |-> sources[i].id,
                                  sheetName |-> sources[i].sheetProfiles[j].sheetName,
                                  columnName |-> sources[i].sheetProfiles[j].columns[c]],
                                 "articles")
                /\ UNCHANGED <<pending, globalId, sourceIdCounter, now, filters, call, ret>>

NextArticles == AddBook \/ LoadOk \/ RemoveSource \/ OverrideArticles

SpecArticles == Init /\ [][NextArticles]_vars

(***************************************************************************)
(* Specification SpecReference: the button of a reference panel pressed    *)
(* once, for a list of sources as their loads left it and a configuration  *)
(* of the panel.                                                           *)
(***************************************************************************)
\* the most sources of the list drawn
MaxListed == 2

\* the files loaded: a.xlsx, b.xlsx, c.xlsx and the file XLSX.read rejects
ListedFiles == {f \in Files : f.loader = "file" /\ f.workbook # EmptyBook}

RECURSIVE FileLists(_)
FileLists(n) ==
    IF n = 0 THEN {<<>>}
    ELSE {Append(l, f) : l \in FileLists(n - 1), f \in ListedFiles}

\* the source of id <<"src", n, 0>> as addSource lists it (part_000:24-39)
ListedAs(n, file) ==
    [id |-> <<"src", n, 0>>, name |-> file.name, type |-> file.loader, status |-> "loading",
     sheets |-> <<>>, transactions |-> <<>>, articles |-> <<>>,
     counterparties |-> <<>>, sheetProfiles |-> <<>>]

\* the source once its load has resolved (part_000:43-59)
ReadyAs(listed, result) ==
    merge(listed,
          [status |-> "ready",
           sheets |-> [i \in DOMAIN result.sheets |->
                         [result.sheets[i] EXCEPT !.sourceId = listed.id]],
           transactions |-> result.transactions,
           articles |-> result.articles,
           counterparties |-> result.counterparties,
           sheetProfiles |-> result.sheetProfiles,
           name |-> result.name])

\* the source once its load has rejected (part_000:60-70)
FailedAs(listed, file) == merge(listed, [status |-> "error", error |-> loaderMessage(file)])

\* the list and the id counter after one more file was added and loaded
OneMore(before, file, result) ==
    IF file.fault # <<>>
    THEN [sources |-> Append(before.sources, FailedAs(ListedAs(Len(before.sources) + 1, file), file)),
          globalId |-> before.globalId]
    ELSE [sources |-> Append(before.sources, ReadyAs(ListedAs(Len(before.sources) + 1, file), result)),
          globalId |-> result.globalId]

RECURSIVE LoadedFrom(_)
\* the files added and loaded one after the other
LoadedFrom(files) ==
    IF files = <<>> THEN [sources |-> <<>>, globalId |-> 0]
    ELSE OneMore(LoadedFrom(SubSeq(files, 1, Len(files) - 1)), files[Len(files)],
                 parseWorkbook(files[Len(files)].workbook, files[Len(files)].name,
                               LoadedFrom(SubSeq(files, 1, Len(files) - 1)).globalId, 0))

\* the sheet names and the column names of the profiles of a list of sources
ProfiledSheets(srcs) ==
    UNION {{srcs[i].sheetProfiles[j].sheetName : j \in DOMAIN srcs[i].sheetProfiles} :
              i \in DOMAIN srcs}

ProfiledColumns(srcs) ==
    UNION {UNION {Range(srcs[i].sheetProfiles[j].columns) : j \in DOMAIN srcs[i].sheetProfiles} :
              i \in DOMAIN srcs}

\* the configurations of a panel: nothing chosen, a source chosen (line
\* 453), a sheet chosen (463), a column chosen (474); the source may have
\* been removed since, and the sheet or the column may be one of another
\* source
ConfigsFor(srcs) ==
    {[sourceId |-> id, sheetName |-> sh, columnName |-> col] :
        id \in {<<>>, <<"src", Len(srcs) + 1, 0>>} \cup {srcs[i].id : i \in DOMAIN srcs},
        sh \in {<<>>} \cup ProfiledSheets(srcs),
        col \in {<<>>} \cup ProfiledColumns(srcs)}

InitReference ==
    /\ \E files \in UNION {FileLists(n) : n \in 0..MaxListed} :
          /\ sources = LoadedFrom(files).sources
          /\ globalId = LoadedFrom(files).globalId
          /\ sourceIdCounter = Len(files)
    /\ pending = {}
    /\ now = 0
    /\ filters = initialFilters
    /\ call \in {[fn |-> "applyReferenceFromColumn", config |-> c, target |-> t] :
                    c \in ConfigsFor(sources), t \in {"counterparties", "articles"}}
    /\ ret = NoRet

\* the button of a panel is pressed (part_000:485, 529)
ReferenceCall ==
    /\ call.fn = "applyReferenceFromColumn"
    /\ ~ret.done
    /\ sources' = applyReferenceFromColumn(sources, call.config, call.target)
    /\ ret' = [done |-> TRUE]
    /\ UNCHANGED <<pending, globalId, sourceIdCounter, now, filters, call>>

NextReference == ReferenceCall

SpecReference == InitReference /\ [][NextReference]_vars

(***************************************************************************)
(* Claims about cleanCounterparty, under SpecClean                         *)
(***************************************************************************)
\* the line cleanCounterparty truncates: the raw value trimmed, folded and
\* reduced to its selected line
SelectedLine == selectLine(foldHomographs(trim(call.raw)))

\* the 0-based positive positions of SelectedLine at which a stop phrase occurs
StopPositions ==
    LET upper == toUpperCase(SelectedLine)
    IN  {i \in 1..Len(upper) :
            \E k \in DOMAIN stopPhrases : occursAt(upper, stopPhrases[k], i)}

\* C7: cleanCounterparty is idempotent: cleaning a cleaned name again, as the
\* report does, gives the same name.
C7_CleanIdempotent ==
    (ret.done /\ ret.again) => ret.recleaned = ret.cleaned

\* C8: the selected line is truncated at the earliest strictly positive
\* position at which any stop phrase occurs, so that what is kept holds no stop
\* phrase at a positive position; a line is never truncated at position 0; and
\* Example 2 is cleaned to OOO Romashka.
C8_TruncatesAtEarliestStop ==
    (ret.done /\ trim(call.raw) # <<>>) =>
        LET kept == truncateAtStop(SelectedLine)
            keptUpper == toUpperCase(kept)
        IN  /\ StopPositions # {} =>
                   kept = trim(SubSeq(SelectedLine, 1, Min(StopPositions)))
            /\ StopPositions = {} => kept = SelectedLine
            /\ \A i \in 1..Len(keptUpper) : \A k \in DOMAIN stopPhrases :
                   ~occursAt(keptUpper, stopPhrases[k], i)
            /\ kept # <<>>
            /\ call.raw = Example2Raw => ret.cleaned = OOORomashka

\* does the string hold an organizational form, in any letter case
HoldsOrgForm(s) ==
    \E k \in DOMAIN orgForms : \E i \in 0..Len(s) :
        occursAt(toUpperCase(s), orgForms[k], i)

\* C9: after truncation and trailing-punctuation stripping the whole string is
\* returned unchanged when it holds an organizational form; otherwise its first
\* three words at most are returned, separated by single blanks; Example 3 is
\* cleaned to Ivanov Ivan Ivanovich.
C9_OrgWholeElseThreeWords ==
    (ret.done /\ trim(call.raw) # <<>>) =>
        LET t == cleanHead(call.raw)
            tWords == splitNonEmpty(t, WhiteSpace)
            outWords == splitNonEmpty(ret.cleaned, WhiteSpace)
        IN  /\ HoldsOrgForm(t) => ret.cleaned = t
            /\ ~HoldsOrgForm(t) =>
                   /\ Len(outWords) = (IF Len(tWords) < 3 THEN Len(tWords) ELSE 3)
                   /\ outWords = SubSeq(tWords, 1, Len(outWords))
                   /\ ret.cleaned = join(outWords, <<" ">>)
            /\ call.raw = Example3Raw => ret.cleaned = IvanovIvanIvanovich

\* a name with no organizational form and more than three words was cut to three
C9_Witness ==
    /\ ret.done
    /\ ~HoldsOrgForm(cleanHead(call.raw))
    /\ Len(splitNonEmpty(cleanHead(call.raw), WhiteSpace)) > 3
    /\ Len(splitNonEmpty(ret.cleaned, WhiteSpace)) = 3

\* the lines of the raw value that contain an organizational-form marker,
\* and those that do not start with an operation word, letter case apart
MarkedLines ==
    {i \in DOMAIN call.lines :
        \E m \in Range(orgMarkers) : includes(toUpperCase(call.lines[i]), m)}

PlainLines ==
    {i \in DOMAIN call.lines :
        ~ \E m \in Range(operationMarkers) : startsWith(toUpperCase(call.lines[i]), m)}

\* the line the statement continues with
PreferredLine ==
    IF MarkedLines # {} THEN call.lines[Min(MarkedLines)]
    ELSE IF PlainLines # {} THEN call.lines[Min(PlainLines)]
    ELSE call.lines[1]

\* a line holds one of the markers written in Latin capitals
LatinMarked(line) ==
    \E m \in {<<"latL", "latL", "latC">>, <<"latL", "latT", "latD">>, <<"latI", "latN", "latC">>} :
        includes(toUpperCase(line), m)

\* C24: for a raw value of several lines cleanCounterparty continues with
\* the first line that contains an organizational-form marker; if no line
\* has one, with the first line that does not start with an operation word;
\* otherwise with the first line.  The result is the one the preferred line
\* alone gives.
C24_PreferredLine ==
    (ret.done /\ "lines" \in DOMAIN call) => ret.cleaned = cleanCounterparty(PreferredLine)

\* the same for the raw values without a marker in Latin letters
PreferredLineWithoutLatin ==
    (ret.done /\ "lines" \in DOMAIN call /\ \A i \in DOMAIN call.lines : ~LatinMarked(call.lines[i]))
        => ret.cleaned = cleanCounterparty(PreferredLine)

\* a line with a Cyrillic marker was preferred over an earlier plain line
CyrillicMarkerPreferred ==
    /\ ret.done
    /\ "lines" \in DOMAIN call
    /\ Len(call.lines) >= 2
    /\ Min(MarkedLines \cup {MaxLines + 1}) = 2
    /\ 1 \in PlainLines
    /\ ret.cleaned = cleanCounterparty(call.lines[2])
    /\ ret.cleaned # cleanCounterparty(call.lines[1])

(***************************************************************************)
(* Claims about resolveCounterpartyName, under SpecResolve                 *)
(***************************************************************************)
\* the names of the reference entries, in registration order
RegisteredNames ==
    [i \in DOMAIN call.sources |-> call.sources[i].counterparties[1].name]

\* the three exact keys a reference name is registered under, and its signature
ExactKeysOf(name) ==
    LET normalized == normalizeCounterpartyForMatch(cleanCounterparty(trim(name)))
    IN  {normalized, stripOrgPrefix(normalized), stripOrgTokens(normalized)} \ {<<>>}

bestStripped(normalized) ==
    IF stripOrgTokens(normalized) # <<>> THEN stripOrgTokens(normalized)
    ELSE IF stripOrgPrefix(normalized) # <<>> THEN stripOrgPrefix(normalized)
    ELSE normalized

SignatureOf(name) ==
    buildTokenSignature(bestStripped(
        normalizeCounterpartyForMatch(cleanCounterparty(trim(name)))))

\* does some reference entry exist at all
AnyReference == \E i \in DOMAIN RegisteredNames : trim(RegisteredNames[i]) # <<>>

\* does one of the four lookups of the raw value hit a registered key
AnyLookupHits ==
    LET names == {RegisteredNames[i] : i \in DOMAIN RegisteredNames}
        exactKeys == UNION {ExactKeysOf(n) : n \in names}
        signatures == {SignatureOf(n) : n \in names} \ {<<>>}
    IN  \/ ExactKeysOf(call.raw) \cap exactKeys # {}
        \/ SignatureOf(call.raw) \in signatures

\* C3, as stated: the result is empty exactly when the raw value is empty or
\* white space only, whatever the dictionary.
C3_EmptyIffRawEmpty ==
    ret.done => (ret.resolved = <<>> <=> trim(call.raw) = <<>>)

\* C3, amended: the result is empty exactly when the raw value is empty or
\* white space only, or no reference entry exists and cleanCounterparty empties
\* the raw value (a raw value made of punctuation only, such as "-"); with a
\* reference entry the result is empty for an empty raw value only.
C3_EmptyIffRawOrCleanedEmpty ==
    ret.done =>
        /\ ret.resolved = <<>> <=>
               \/ trim(call.raw) = <<>>
               \/ ~AnyReference /\ cleanCounterparty(call.raw) = <<>>
        /\ AnyReference => (ret.resolved = <<>> <=> trim(call.raw) = <<>>)

\* a raw value of punctuation resolved to the empty string without references,
C3_Witness ==
    /\ ret.done
    /\ trim(call.raw) # <<>>
    /\ ~AnyReference
    /\ ret.resolved = <<>>

Example6Case ==
    /\ ret.done
    /\ RegisteredNames \in {<<OOORomashka, RomashkaOOO>>, <<RomashkaOOO, OOORomashka>>}

\* C6, as stated: a raw value equal to either name resolves to whichever of
\* the two names was registered first.
C6_EitherNameResolvesToFirst ==
    (Example6Case /\ call.raw \in {OOORomashka, RomashkaOOO}) =>
        ret.resolved = RegisteredNames[1]

\* C6, amended: a raw value equal to either name resolves to that same name,
\* its own normalized key being registered; a raw value that has neither
\* normalized key and shares only the stripped key or the signature (Romashka,
\* IP Romashka, Romashka IP) resolves to the name registered first.
C6_OwnNameElseFirst ==
    Example6Case =>
        /\ call.raw \in {OOORomashka, RomashkaOOO} => ret.resolved = call.raw
        /\ call.raw \in {Romashka, IPRomashka, RomashkaIP} =>
               ret.resolved = RegisteredNames[1]

\* the name registered second, resolved to itself
C6_Witness ==
    /\ Example6Case
    /\ call.raw = RegisteredNames[2]
    /\ ret.resolved = RegisteredNames[2]

\* the three exact keys of the raw value in the order of the lookups:
\* normalized, prefix-stripped, org-stripped
RawKeys ==
    << normalizeCounterpartyForMatch(cleanCounterparty(trim(call.raw))),
       stripOrgPrefix(normalizeCounterpartyForMatch(cleanCounterparty(trim(call.raw)))),
       stripOrgTokens(normalizeCounterpartyForMatch(cleanCounterparty(trim(call.raw)))) >>

\* the levels at which the exact lookup of the raw value hits
ExactHits == {l \in DOMAIN RawKeys : RawKeys[l] \in DOMAIN ret.dictionary.exactMap}

\* C23: the lookups are tried in the order normalized key, prefix-stripped
\* key, org-stripped key, then the token signature of the best available
\* stripped form, and the result is the display name of the first lookup
\* that hits, whatever a later level would find.
C23_FirstLookupWins ==
    (ret.done /\ trim(call.raw) # <<>>) =>
        /\ ExactHits # {} => ret.resolved = ret.dictionary.exactMap[RawKeys[Min(ExactHits)]]
        /\ (ExactHits = {} /\ SignatureOf(call.raw) \in DOMAIN ret.dictionary.tokenMap) =>
               ret.resolved = ret.dictionary.tokenMap[SignatureOf(call.raw)]

\* C23 witness: the normalized key of the raw value hits one entry while its
\* prefix-stripped key and its signature are held by another, and the entry
\* of the normalized key is returned.
C23_Witness ==
    /\ ret.done
    /\ {1, 2} \subseteq ExactHits
    /\ ret.dictionary.exactMap[RawKeys[1]] # ret.dictionary.exactMap[RawKeys[2]]
    /\ SignatureOf(call.raw) \in DOMAIN ret.dictionary.tokenMap
    /\ ret.dictionary.tokenMap[SignatureOf(call.raw)] # ret.dictionary.exactMap[RawKeys[1]]
    /\ ret.resolved = ret.dictionary.exactMap[RawKeys[1]]

(***************************************************************************)
(* Claims about getDirection, under SpecDirection                          *)
(***************************************************************************)
\* the entries of the article list whose name is the article, letter case and
\* surrounding blanks aside
ArticleMatches ==
    {i \in DOMAIN call.articlesRef :
        trim(toLowerCase(call.articlesRef[i].name)) = trim(toLowerCase(call.article))}

\* the group of the first such entry, in small letters
MatchedGroup == toLowerCase(call.articlesRef[Min(ArticleMatches)].group)

\* does the article text hold one of the income keywords
HasIncomeKeyword ==
    \E kw \in incomeKeywords : \E i \in 0..Len(call.article) :
        occursAt(toLowerCase(call.article), kw, i)

\* C10: an empty article gives out; an article found in the list gives in when
\* its group holds the receipt word and out when it holds the disbursement
\* word (the receipt word is tested first), whatever the article's own
\* wording; an article not found, or whose group holds neither word, gives in
\* only if the article text holds an income keyword, and out otherwise; Arenda
\* with no entry gives out.
C10_DirectionRule ==
    ret.done =>
        LET found == ArticleMatches # {}
            groupIn == found /\ includes(MatchedGroup, GroupIn)
            groupOut == found /\ includes(MatchedGroup, GroupOut)
        IN  /\ call.article = <<>> => ret.direction = "out"
            /\ (call.article # <<>> /\ groupIn) => ret.direction = "in"
            /\ (call.article # <<>> /\ groupOut /\ ~groupIn) => ret.direction = "out"
            /\ (call.article # <<>> /\ ~groupIn /\ ~groupOut) =>
                   ret.direction = (IF HasIncomeKeyword THEN "in" ELSE "out")
            /\ (call.article = Arenda /\ ~found) => ret.direction = "out"

\* the dictionary overrides the wording: Dohod, registered under the
\* disbursement group, gives out
C10_Witness ==
    /\ ret.done
    /\ call.article = Dohod
    /\ ArticleMatches # {}
    /\ includes(MatchedGroup, GroupOut)
    /\ ~includes(MatchedGroup, GroupIn)
    /\ ret.direction = "out"

(***************************************************************************)
(* Claims about the extractors, under SpecParse                            *)
(***************************************************************************)
\* the position of the amount cell in a data row of the grid drawn
AmountPosition ==
    IF call.fn = "parseCashJournal" THEN 3
    ELSE IF call.fn = "parseBankJournal" THEN 5
    ELSE 2

\* the amount cells of the data rows, in row order
AmountCellsOfCall == [i \in 1..(Len(call.data) - 1) |-> call.data[i + 1][AmountPosition]]

\* the cells drawn that denote no amount or the amount zero
ZeroAmountCells == {Str(<<>>), Num(0), Str(<<"-", "0">>)}

\* C1: every transaction an extractor returns has amount > 0: parseAmount
\* is never negative, and exactly the rows whose amount cell parses to a
\* non-zero amount yield a transaction, whatever their date and article
\* cells hold.
C1_AmountsPositive ==
    ret.done =>
        /\ \A i \in DOMAIN AmountCellsOfCall : parseAmount(AmountCellsOfCall[i]) >= 0
        /\ \A i \in DOMAIN ret.transactions : ret.transactions[i].amount > 0
        /\ Len(ret.transactions) =
              Cardinality({i \in DOMAIN AmountCellsOfCall :
                              AmountCellsOfCall[i] \notin ZeroAmountCells})

\* C1 witness: a row with the number -250 became a transaction of amount
\* 250 while a row with a date, an article and the amount text -0 was dropped.
C1_Witness ==
    /\ ret.done
    /\ Len(call.data) = 3
    /\ AmountCellsOfCall[1] = Num(-25000)
    /\ AmountCellsOfCall[2] = Str(<<"-", "0">>)
    /\ call.data[3][1] # Str(<<>>)
    /\ Str(Dohod) \in Range(call.data[3])
    /\ Len(ret.transactions) = 1
    /\ ret.transactions[1].amount = 25000

\* the data rows of the grid drawn that yield a transaction, in row order
KeptRowsOfCall ==
    SelectSeq(SubSeq(call.data, 2, Len(call.data)),
              LAMBDA row : row[AmountPosition] \notin ZeroAmountCells)

\* the cell of a row of the bank grid drawn under Analitika Dt (for out)
\* or under Analitika Kt (for in)
AnalyticsCell(row, direction) == IF direction = "out" THEN row[3] ELSE row[4]

\* the other direction
Opposite(direction) == IF direction = "out" THEN "in" ELSE "out"

\* C11: every transaction of parseBankJournal carries the trimmed text of
\* its row's Analitika Dt cell when its direction is out and of its row's
\* Analitika Kt cell when its direction is in, and never the other cell's.
C11_BankCounterpartyByDirection ==
    (ret.done /\ call.fn = "parseBankJournal") =>
        /\ Len(ret.transactions) = Len(KeptRowsOfCall)
        /\ \A i \in DOMAIN ret.transactions :
              /\ ret.transactions[i].direction \in {"in", "out"}
              /\ ret.transactions[i].counterparty =
                    text(AnalyticsCell(KeptRowsOfCall[i], ret.transactions[i].direction))
              /\ ret.transactions[i].counterparty #
                    text(AnalyticsCell(KeptRowsOfCall[i], Opposite(ret.transactions[i].direction)))

\* C11 witness: a bank grid yielded a payment and a receipt, each with the
\* counterparty of its own column.
C11_Witness ==
    /\ ret.done
    /\ call.fn = "parseBankJournal"
    /\ Len(ret.transactions) = 2
    /\ ret.transactions[1].direction = "out"
    /\ ret.transactions[1].counterparty = <<"P", "o", "s", "t", "a", "v", "sch", "i", "k">>
    /\ ret.transactions[2].direction = "in"
    /\ ret.transactions[2].counterparty = <<"K", "l", "i", "e", "n", "t">>

\* the extractor of the call applied to a grid, the id counter at 0
Rerun(data) ==
    IF call.fn = "parseCashJournal"
    THEN parseCashJournal(data, call.sheetName, call.sourceName, call.articlesRef, 0, 0, now).transactions
    ELSE IF call.fn = "parseBankJournal"
    THEN parseBankJournal(data, call.sheetName, call.sourceName, call.articlesRef, 0, 0, now).transactions
    ELSE tryParseFallback(data, call.sheetName, call.sourceName, call.articlesRef, 0, 0, now).transactions

\* the grid of the call without its data row k
WithoutRow(k) == SubSeq(call.data, 1, k) \o SubSeq(call.data, k + 2, Len(call.data))

\* the number of transactions the header row and the first k data rows yield
EmittedUpTo(k) == Len(Rerun(SubSeq(call.data, 1, k + 1)))

\* the transactions returned that data row k yielded, and the other ones
FromRow(k) == SubSeq(ret.transactions, EmittedUpTo(k - 1) + 1, EmittedUpTo(k))

OtherThanRow(k) ==
    SubSeq(ret.transactions, 1, EmittedUpTo(k - 1))
        \o SubSeq(ret.transactions, EmittedUpTo(k) + 1, Len(ret.transactions))

\* the transactions without their ids
IdsBlanked(transactions) == [i \in DOMAIN transactions |-> [transactions[i] EXCEPT !.id = <<>>]]

\* the date of data row k is not read: the cell does not parse or the column
\* is not named
DateUnread(k) == call.missing = "date" \/ ~parseDate(call.rows[k][1]).ok

\* the amount data row k is read with: zero when the column is not named
AmountRead(k) == IF call.missing = "amount" THEN 0 ELSE parseAmount(call.rows[k][2])

\* data row k is defective
Defective(k) ==
    \/ call.missing # "none"
    \/ ~parseDate(call.rows[k][1]).ok
    \/ call.rows[k][2] = Str(<<"n", "e", "t">>)

\* the defaults of a defective row: an unread date is the epoch, an unread
\* amount is zero and the row is skipped, an unread article is empty; a row
\* with a non-zero amount is emitted
DefaultsOfRow(k) ==
    /\ AmountRead(k) = 0 => FromRow(k) = <<>>
    /\ AmountRead(k) # 0 =>
          /\ Len(FromRow(k)) = 1
          /\ FromRow(k)[1].amount = AmountRead(k)
          /\ DateUnread(k) => FromRow(k)[1].date = Epoch.day
          /\ call.missing = "article" => FromRow(k)[1].article = <<>>

LoweredText(cell) == trim(toLowerCase(IF falsy(cell) THEN <<>> ELSE String(cell)))

\* the score of a row in halves: 4 per cell containing a keyword, 1 per
\* cell that is a text, no numeral, and longer than one character
ScoreInHalves(row) ==
    4 * Cardinality({i \in DOMAIN row :
                        \E k \in DOMAIN headerKeywords :
                            includes(LoweredText(row[i]), headerKeywords[k])})
    + Cardinality({i \in DOMAIN row :
                      /\ row[i].t = "s"
                      /\ ~numericString(row[i].s)
                      /\ Len(LoweredText(row[i])) > 1})

\* the rows findHeaderRow may choose: the first 10, by position from 1
Eligible(data) == {i \in DOMAIN data : i <= 10}

\* C12: findHeaderRow returns the index of the earliest of the first 10
\* rows whose score is the highest of these rows, and 0 when none of them
\* scores above zero; a row at index 10 or later is never chosen.
C12_EarliestBestOfFirstTen ==
    (ret.done /\ call.fn = "findHeaderRow") =>
        /\ ret.headerRowIndex < 10
        /\ IF \E i \in Eligible(call.data) : ScoreInHalves(call.data[i]) > 0
           THEN /\ ret.headerRowIndex + 1 \in Eligible(call.data)
                /\ \A j \in Eligible(call.data) :
                      /\ ScoreInHalves(call.data[j]) <= ScoreInHalves(call.data[ret.headerRowIndex + 1])
                      /\ j < ret.headerRowIndex + 1 =>
                            ScoreInHalves(call.data[j]) < ScoreInHalves(call.data[ret.headerRowIndex + 1])
           ELSE ret.headerRowIndex = 0

\* C12 witness: nine blank rows, a row with one keyword at index 9 and the
\* full header at index 10: the row at index 9 is returned.
C12_Witness ==
    /\ ret.done
    /\ call.fn = "findHeaderRow"
    /\ Len(call.data) = 12
    /\ call.data[9] = BlankRow
    /\ call.data[10] = DateKeyRow
    /\ call.data[11] = CashHeader
    /\ call.data[12] = SumKeyRow
    /\ ScoreInHalves(call.data[11]) > ScoreInHalves(call.data[10])
    /\ ret.headerRowIndex = 9

\* the first of the groups reference, cash journal, bank journal that is
\* among those given, none when there is none
FirstGroup(groups) ==
    IF "reference" \in groups THEN "reference"
    ELSE IF "cash_journal" \in groups THEN "cash_journal"
    ELSE IF "bank_journal" \in groups THEN "bank_journal"
    ELSE "none"

\* C13: the type is that of the first keyword group, in the order
\* reference, cash journal, bank journal, whose marker the sheet name
\* holds; when the name holds none it is that of the first header pattern
\* satisfied, in the same order, then cash_journal by the single-keyword
\* heuristic, and unknown when nothing matches.
C13_NameFirstThenHeaders ==
    (ret.done /\ call.fn = "detectSheetType") =>
        ret.type =
            IF FirstGroup(call.nameGroups) # "none" THEN FirstGroup(call.nameGroups)
            ELSE IF FirstGroup(call.headerGroups) # "none" THEN FirstGroup(call.headerGroups)
            ELSE IF "heuristic" \in call.headerGroups THEN "cash_journal"
            ELSE "unknown"

\* C13 witness: the headers Data oplaty, Koshelyok, Summa v rublyah, Statya
\* dohoda, Kontragent under a name without markers give cash_journal.
C13_Witness ==
    /\ ret.done
    /\ call.fn = "detectSheetType"
    /\ call.sheetName = <<"L", "i", "s", "t", "1">>
    /\ call.nameGroups = {}
    /\ call.headers =
          <<<<"D", "a", "t", "a", " ", "o", "p", "l", "a", "t", "y">>, <<"K", "o", "sh", "e", "l", "yo", "k">>, <<"S", "u", "m", "m", "a", " ", "v", " ", "r", "u", "b", "l", "ya", "h">>, <<"S", "t", "a", "t", "ss", "ya", " ", "d", "o", "h", "o", "d", "a">>, <<"K", "o", "n", "t", "r", "a", "g", "e", "n", "t">>>>
    /\ ret.type = "cash_journal"

\* the trimmed texts of the cells of the column at position c, one per row
\* below the header row
ColumnTexts(c) ==
    [i \in 1..(Len(call.data) - ret.headerRowIndex - 1) |->
        profileValue(cellAt(call.data[ret.headerRowIndex + 1 + i], c - 1))]

\* the rows at which a non-blank text of the column appears for the first time
FirstSeenAt(texts) ==
    SelectSeq([i \in DOMAIN texts |-> i],
              LAMBDA i : texts[i] # <<>> /\ \A j \in 1..(i - 1) : texts[j] # texts[i])

\* the first distinct non-blank texts, at most ProfileValuesLimit of them
FirstDistinct(texts, seen) ==
    [k \in 1..(IF Len(seen) < ProfileValuesLimit THEN Len(seen) ELSE ProfileValuesLimit) |->
        texts[seen[k]]]

\* the list is short enough, free of blanks, trimmed and free of repetitions
WellFormedValues(values) ==
    /\ Len(values) <= ProfileValuesLimit
    /\ \A k \in DOMAIN values : values[k] # <<>> /\ trim(values[k]) = values[k]
    /\ \A k, l \in DOMAIN values : values[k] = values[l] => k = l

\* C20: for every column of a profile built, valuesByColumn holds at most
\* 300 values, none blank, all trimmed and pairwise distinct, and they are
\* the first (up to 300) distinct values of that column in the order they
\* first appear below the header row.
C20_ValuesAreFirstDistinctOfColumn ==
    (ret.done /\ call.fn = "buildSheetProfile") =>
        \A c \in DOMAIN ret.profile.columns :
            /\ WellFormedValues(ret.profile.valuesByColumn[ret.profile.columns[c]])
            /\ ret.profile.valuesByColumn[ret.profile.columns[c]]
                   = FirstDistinct(ColumnTexts(c), FirstSeenAt(ColumnTexts(c)))

\* the same for the profiles whose column names differ from one another
ValuesOfDistinctColumns ==
    (/\ ret.done
     /\ call.fn = "buildSheetProfile"
     /\ \A c, d \in DOMAIN ret.profile.columns :
            ret.profile.columns[c] = ret.profile.columns[d] => c = d) =>
        \A c \in DOMAIN ret.profile.columns :
            /\ WellFormedValues(ret.profile.valuesByColumn[ret.profile.columns[c]])
            /\ ret.profile.valuesByColumn[ret.profile.columns[c]]
                   = FirstDistinct(ColumnTexts(c), FirstSeenAt(ColumnTexts(c)))

\* a column of more distinct values than a profile keeps, with repetitions
\* in between, was profiled
ProfileCapReached ==
    /\ ret.done
    /\ call.fn = "buildSheetProfile"
    /\ Len(ret.profile.valuesByColumn[ret.profile.columns[1]]) = ProfileValuesLimit
    /\ Len(FirstSeenAt(ColumnTexts(1))) > ProfileValuesLimit

\* the trimmed text of the header cell at position c
HeaderText(c) == text(call.data[ret.headerRowIndex + 1][c])

\* the name the statement gives the header cell at position c: the text, or
\* Kolonka and the letter for a blank one
NameOfCell(c) ==
    IF HeaderText(c) # <<>> THEN HeaderText(c)
    ELSE <<"K", "o", "l", "o", "n", "k", "a", " ", LatinCapitals[c]>>

\* the name of the cell at c, with the letter appended when an earlier cell
\* has the same name
NamedAsStated(c) ==
    IF \A d \in 1..(c - 1) : NameOfCell(d) # NameOfCell(c) THEN NameOfCell(c)
    ELSE NameOfCell(c) \o <<" ", "(", LatinCapitals[c], ")">>

\* one name per header cell, named as stated
NamesOfHeaderCells ==
    (ret.done /\ call.fn = "buildSheetProfile") =>
        /\ Len(ret.profile.columns) = Len(call.data[ret.headerRowIndex + 1])
        /\ \A c \in DOMAIN ret.profile.columns : ret.profile.columns[c] = NamedAsStated(c)

\* C25: the columns list returned by buildSheetProfile has one name per
\* header cell, a blank header being replaced by Kolonka and the letter and
\* a repeated header text getting its column letter appended, and the
\* resulting names are pairwise distinct for every header row.
C25_ColumnNamesDistinct ==
    /\ NamesOfHeaderCells
    /\ (ret.done /\ call.fn = "buildSheetProfile") =>
          \A c, d \in DOMAIN ret.profile.columns :
              ret.profile.columns[c] = ret.profile.columns[d] => c = d

\* a header row with a blank cell and one with a repeated text were named
BlankAndRepeatedNamed ==
    /\ ret.done
    /\ call.fn = "buildSheetProfile"
    /\ Len(ret.profile.columns) = 2
    /\ \/ HeaderText(2) = <<>>
       \/ HeaderText(2) = HeaderText(1)
    /\ ret.profile.columns[2] # HeaderText(2)
    /\ ret.profile.columns[2] # ret.profile.columns[1]

(***************************************************************************)
(* Claims about findColumnIndex, under SpecColumns                         *)
(***************************************************************************)
\* the header at position i contains the keyword at position k
HeaderHas(i, k) == includes(normalizeHeader(call.headers[i]), toLowerCase(call.keywords[k]))

\* the keywords that some header contains
KeywordsFound == {k \in DOMAIN call.keywords : \E i \in DOMAIN call.headers : HeaderHas(i, k)}

\* the headers that contain the earliest of the keywords found
HeadersOfEarliest == {i \in DOMAIN call.headers : HeaderHas(i, Min(KeywordsFound))}

\* C26: findColumnIndex returns the leftmost header containing the earliest
\* keyword of the list that matches any header, and -1 when no keyword
\* matches, in which case the extractor reads the empty text or zero.
C26_KeywordPriority ==
    (ret.done /\ call.fn = "findColumnIndex") =>
        IF KeywordsFound = {}
        THEN ret.index = -1 /\ ret.text = <<>> /\ ret.amount = 0
        ELSE /\ ret.index = Min(HeadersOfEarliest) - 1
             /\ ret.text = trim(String(call.row[Min(HeadersOfEarliest)]))
             /\ ret.amount = parseAmount(call.row[Min(HeadersOfEarliest)])

\* a header containing a later keyword stood left of the one chosen
C26_Witness ==
    /\ ret.done
    /\ call.fn = "findColumnIndex"
    /\ ret.index = 1
    /\ \E k \in KeywordsFound : k > Min(KeywordsFound) /\ HeaderHas(1, k)
    /\ ~HeaderHas(1, Min(KeywordsFound))

\* no keyword matched and the defaults were read
NoColumnFound ==
    /\ ret.done
    /\ call.fn = "findColumnIndex"
    /\ call.headers # <<>>
    /\ ret.index = -1

(***************************************************************************)
(* Claims about parseReferenceSheet, under SpecRefSheet                    *)
(***************************************************************************)
\* the positions of the headers that contain the text, letter case apart
HeadersWith(part) ==
    {i \in DOMAIN call.data[1] : includes(normalizeHeader(call.data[1][i].s), part)}

\* the position of the column the counterparties are read from: the column
\* titled Spravochnik kontragentov, else the first one of Kontragent, else 0
StatedCounterpartyColumn ==
    IF HeadersWith(<<"s", "p", "r", "a", "v", "o", "ch", "n", "i", "k", " ", "k", "o", "n", "t", "r", "a", "g", "e", "n", "t", "o", "v">>) # {}
    THEN Min(HeadersWith(<<"s", "p", "r", "a", "v", "o", "ch", "n", "i", "k", " ", "k", "o", "n", "t", "r", "a", "g", "e", "n", "t", "o", "v">>))
    ELSE IF HeadersWith(<<"k", "o", "n", "t", "r", "a", "g", "e", "n", "t">>) # {}
    THEN Min(HeadersWith(<<"k", "o", "n", "t", "r", "a", "g", "e", "n", "t">>))
    ELSE 0

StatedArticleColumn ==
    IF HeadersWith(<<"s", "t", "a", "t", "ss", "ya", " ", "d", "d", "s">>) # {} THEN Min(HeadersWith(<<"s", "t", "a", "t", "ss", "ya", " ", "d", "d", "s">>)) ELSE 0

\* the trimmed texts of the column at position c, one per row below the
\* header row; none for position 0
TextsUnder(c) ==
    IF c = 0 THEN <<>>
    ELSE [k \in 1..(Len(call.data) - 1) |->
             IF c <= Len(call.data[k + 1]) THEN trim(call.data[k + 1][c].s) ELSE <<>>]

namesOf(entries) == [k \in DOMAIN entries |-> entries[k].name]

\* the sheet with the headers that contain the text blanked
WithoutHeaders(part) ==
    [call.data EXCEPT ![1] =
        [i \in DOMAIN call.data[1] |->
            IF i \in HeadersWith(part) THEN Str(<<>>) ELSE call.data[1][i]]]

\* C27: parseReferenceSheet reads counterparties from the column whose
\* header contains Spravochnik kontragentov if there is one, else from the
\* first column whose header contains Kontragent, dropping blank values and
\* values containing spravochnik; it reads one article per non-blank cell of
\* the Statya DDS column; the presence or absence of either column does not
\* change what is extracted from the other.
C27_ReferenceColumns ==
    (ret.done /\ call.fn = "parseReferenceSheet") =>
        /\ namesOf(ret.counterparties)
               = SelectSeq(TextsUnder(StatedCounterpartyColumn),
                           LAMBDA v : v # <<>> /\ ~includes(toLowerCase(v), <<"s", "p", "r", "a", "v", "o", "ch", "n", "i", "k">>))
        /\ namesOf(ret.articles)
               = SelectSeq(TextsUnder(StatedArticleColumn), LAMBDA v : v # <<>>)
        /\ ret.articles = parseReferenceSheet(WithoutHeaders(<<"k", "o", "n", "t", "r", "a", "g", "e", "n", "t">>), 0).articles
        /\ ret.counterparties
               = parseReferenceSheet(WithoutHeaders(<<"s", "t", "a", "t", "ss", "ya", " ", "d", "d", "s">>), 0).counterparties

\* the column of the full title stood right of a column titled Kontragent
\* and was read, a value holding spravochnik being dropped; articles were
\* read as well
C27_Witness ==
    /\ ret.done
    /\ call.fn = "parseReferenceSheet"
    /\ StatedCounterpartyColumn > Min(HeadersWith(<<"k", "o", "n", "t", "r", "a", "g", "e", "n", "t">>) \cup {4})
    /\ StatedArticleColumn # 0
    /\ ret.articles # <<>>
    /\ ret.counterparties # <<>>
    /\ Len(ret.counterparties) < Len(SelectSeq(TextsUnder(StatedCounterpartyColumn), LAMBDA v : v # <<>>))
    /\ namesOf(ret.counterparties) # namesOf(ret.articles)

(***************************************************************************)
(* Claims about parseWorkbook, under SpecWorkbook                          *)
(***************************************************************************)
\* the sheets of the workbook parsed that hold a row and classify as
\* neither journal type nor reference
PlainSheetNames ==
    {n \in Range(getVisibleSheetNames(call.workbook)) :
        /\ call.workbook.Sheets[n] # <<>>
        /\ detectSheetType(n, findHeaderRow(call.workbook.Sheets[n]).headers) = "unknown"}

\* the columns the fallback extractor resolves on a sheet
FallbackColumnsOf(n) == fallbackColumns(findHeaderRow(call.workbook.Sheets[n]).headers)

\* the transactions returned that come from a sheet
ReturnedFrom(n) == SelectSeq(ret.transactions, LAMBDA t : t.sheet = n)

\* the entries of the sheet list returned for a sheet
ReportedFor(n) == SelectSeq(ret.sheets, LAMBDA sh : sh.name = n)

\* C14: a sheet of no known type whose date and amount columns both fail
\* to resolve yields no transaction; the sheet is reported once, as unknown
\* with rowCount 0 exactly when it yields no transaction and else as
\* cash_journal with rowCount the number of its transactions.
C14_FallbackReport ==
    (ret.done /\ call.fn = "parseWorkbook") =>
        \A n \in PlainSheetNames :
            /\ (FallbackColumnsOf(n).date = -1 /\ FallbackColumnsOf(n).amount = -1)
                  => ReturnedFrom(n) = <<>>
            /\ Len(ReportedFor(n)) = 1
            /\ (ReportedFor(n)[1].type = "unknown" /\ ReportedFor(n)[1].rowCount = 0)
                  <=> ReturnedFrom(n) = <<>>
            /\ ReturnedFrom(n) # <<>> =>
                  /\ ReportedFor(n)[1].type = "cash_journal"
                  /\ ReportedFor(n)[1].rowCount = Len(ReturnedFrom(n))

\* C14 witness: a sheet with neither column and a row holding a date and
\* an amount is reported as unknown with no transaction.
C14_Witness ==
    /\ ret.done
    /\ call.fn = "parseWorkbook"
    /\ <<"L", "i", "s", "t", "1">> \in PlainSheetNames
    /\ FallbackColumnsOf(<<"L", "i", "s", "t", "1">>).date = -1
    /\ FallbackColumnsOf(<<"L", "i", "s", "t", "1">>).amount = -1
    /\ Len(call.workbook.Sheets[<<"L", "i", "s", "t", "1">>]) = 2
    /\ call.workbook.Sheets[<<"L", "i", "s", "t", "1">>][2][1] = Str(<<"1", "8", ".", "0", "1", ".", "2", "0", "2", "4">>)
    /\ call.workbook.Sheets[<<"L", "i", "s", "t", "1">>][2][2] = Str(<<"3", "0", "0">>)
    /\ ReportedFor(<<"L", "i", "s", "t", "1">>) = <<mkSheet(<<"L", "i", "s", "t", "1">>, "unknown", 0, call.sourceName)>>

(***************************************************************************)
(* Claims about the reference sheets of a workbook, under SpecBooks        *)
(***************************************************************************)
\* the names of the visible sheets of the workbook that hold a row and
\* classify as reference, in workbook order
ReferenceSheetNames ==
    SelectSeq(getVisibleSheetNames(call.workbook),
              LAMBDA n : /\ call.workbook.Sheets[n] # <<>>
                         /\ detectSheetType(n, findHeaderRow(call.workbook.Sheets[n]).headers)
                                = "reference")

\* what parseReferenceSheet reads from the sheet of the name
ReadFrom(n) ==
    parseReferenceSheet(call.workbook.Sheets[n],
                        findHeaderRow(call.workbook.Sheets[n]).headerRowIndex)

LastReference == ReadFrom(ReferenceSheetNames[Len(ReferenceSheetNames)])

\* C29: when a workbook has several visible sheets classified as reference,
\* the articles and counterparties returned by parseWorkbook are exactly
\* those of the last such sheet in workbook order; the entries of earlier
\* reference sheets are discarded, also when the last one lacks the column.
C29_LastReferenceSheetWins ==
    (ret.done /\ call.fn = "parseWorkbook" /\ ReferenceSheetNames # <<>>) =>
        /\ ret.articles = LastReference.articles
        /\ ret.counterparties = LastReference.counterparties

\* two reference sheets were read, the first with articles and
\* counterparties, the last without a counterparty column
C29_Witness ==
    /\ ret.done
    /\ call.fn = "parseWorkbook"
    /\ Len(ReferenceSheetNames) = 2
    /\ ReadFrom(ReferenceSheetNames[1]).counterparties # <<>>
    /\ ReadFrom(ReferenceSheetNames[1]).articles # <<>>
    /\ ReadFrom(ReferenceSheetNames[1]).articles # ret.articles
    /\ ret.articles # <<>>
    /\ ret.counterparties = <<>>

(***************************************************************************)
(* Claims about applyFilters, under SpecFilter                             *)
(***************************************************************************)
\* the transaction passes the date dimension: it is not before dateFrom, and
\* its calendar day is not after the calendar day of dateTo
PassesDates(t, f) ==
    /\ f.dateFrom.ok => ~earlier(t.date, f.dateFrom)
    /\ f.dateTo.ok => t.date.day <= f.dateTo.day

\* the value is in the list, or the list is empty
PassesList(value, list) == list = <<>> \/ \E i \in DOMAIN list : list[i] = value

\* the transaction passes every dimension at once
PassesAll(t, f) ==
    /\ PassesDates(t, f)
    /\ PassesList(t.article, f.articles)
    /\ PassesList(t.branch, f.branches)
    /\ PassesList(t.counterparty, f.counterparties)
    /\ PassesList(t.sheet, f.sheets)
    /\ f.direction = "all" \/ t.direction = f.direction

\* C19: the filtered list holds, in the order of the list given, exactly the
\* transactions that pass every dimension at once: date not before dateFrom,
\* date not after the end of the dateTo day, article, branch, counterparty
\* and sheet in the corresponding list unless that list is empty, direction
\* equal to the filter unless it is 'all'; with the initial filters, as
\* after RESET_FILTERS, the filtered list is the list given.
C19_KeepsWhatPassesEveryDimension ==
    ret.done =>
        /\ ret.filteredTransactions
               = SelectSeq(call.transactions, LAMBDA t : PassesAll(t, filters))
        /\ filters = initialFilters => ret.filteredTransactions = call.transactions

\* a list filtered by a dateTo and a list of articles: a transaction of the
\* dateTo day later than the dateTo instant is kept, one of the next day and
\* one of another article are dropped
C19_Witness ==
    /\ ret.done
    /\ filters.dateTo.ok
    /\ filters.articles # <<>>
    /\ \E i \in DOMAIN ret.filteredTransactions :
           /\ ret.filteredTransactions[i].date.day = filters.dateTo.day
           /\ earlier(filters.dateTo, ret.filteredTransactions[i].date)
    /\ \E i \in DOMAIN call.transactions :
           /\ call.transactions[i].date.day > filters.dateTo.day
           /\ call.transactions[i] \notin Range(ret.filteredTransactions)
    /\ Len(ret.filteredTransactions) < Len(call.transactions)

(***************************************************************************)
(* Claims about the reference panel, under SpecReference                   *)
(***************************************************************************)
\* the ready sources of the id chosen, and their profiles of the sheet chosen
ChosenSources == {i \in DOMAIN sources : sources[i].status = "ready" /\ sources[i].id = call.config.sourceId}

ChosenProfiles(i) ==
    {j \in DOMAIN sources[i].sheetProfiles :
        /\ sources[i].sheetProfiles[j].sheetName = call.config.sheetName
        /\ call.config.columnName \in Range(sources[i].sheetProfiles[j].columns)}

\* the distinct non-blank trimmed values of a list, in the order of the list
DistinctTrimmed(values) ==
    LET trimmed == [k \in DOMAIN values |-> trim(values[k])]
    IN  valuesAt(trimmed,
                 SelectSeq([k \in DOMAIN trimmed |-> k],
                           LAMBDA k : trimmed[k] # <<>> /\ \A l \in 1..(k - 1) : trimmed[l] # trimmed[k]))

\* the entries of the target dictionary made of the values
EntriesOf(values) ==
    IF call.target = "counterparties"
    THEN [k \in DOMAIN values |-> [name |-> values[k]]]
    ELSE [k \in DOMAIN values |->
             [name |-> values[k], group |-> <<>>, activityType |-> <<>>, comment |-> <<>>]]

\* source i with its target dictionary replaced by the values
Replaced(i, values) ==
    [sources EXCEPT ![i] =
        IF call.target = "counterparties"
        THEN [sources[i] EXCEPT !.counterparties = EntriesOf(values)]
        ELSE [sources[i] EXCEPT !.articles = EntriesOf(values)]]

\* the step is the one the statement allows: the dictionary of the chosen
\* ready source replaced by the values of the chosen column, or, when the
\* source, the sheet or the column is not found or the column holds no
\* value, nothing changed
ReplacesChosenOrNothing ==
    \/ \E i \in ChosenSources : \E j \in ChosenProfiles(i) :
          /\ DistinctTrimmed(sources[i].sheetProfiles[j].valuesByColumn[call.config.columnName]) # <<>>
          /\ sources' = Replaced(i, DistinctTrimmed(sources[i].sheetProfiles[j].valuesByColumn[call.config.columnName]))
    \/ /\ \A i \in ChosenSources : \A j \in ChosenProfiles(i) :
             DistinctTrimmed(sources[i].sheetProfiles[j].valuesByColumn[call.config.columnName]) = <<>>
       /\ sources' = sources

\* C22: applyReferenceFromColumn either replaces exactly the target
\* dictionary of the chosen ready source with the distinct non-blank trimmed
\* values of the chosen profile column, every other field of that source
\* and every other source unchanged, or, when the source, sheet or column
\* cannot be resolved or the column has no values, leaves all sources
\* unchanged.
C22_ReplacesChosenOrNothing ==
    [][ReferenceCall => ReplacesChosenOrNothing]_vars

\* the same for the configurations with a source, a sheet and a column chosen
ReplacesChosenWhenComplete ==
    [][(ReferenceCall /\ complete(call.config)) => ReplacesChosenOrNothing]_vars

\* a dictionary was replaced under a configuration with all three chosen
ReplacedUnderComplete ==
    /\ ret.done
    /\ complete(call.config)
    /\ \E i \in DOMAIN sources :
          /\ sources[i].id = call.config.sourceId
          /\ call.target = "articles"
          /\ sources[i].articles # <<>>
          /\ \A k \in DOMAIN sources[i].articles : sources[i].articles[k].group = <<>>

(***************************************************************************)
(* Claims about the application, under Spec                                *)
(***************************************************************************)
\* the transactions the sources hold, source by source
StoredTransactions(srcs) == flat([i \in DOMAIN srcs |-> srcs[i].transactions])

\* the ids of the transactions the sources hold
HeldIds(srcs) == {StoredTransactions(srcs)[i].id : i \in DOMAIN StoredTransactions(srcs)}

\* C2: across the parseWorkbook invocations of a run the id counter never
\* goes back, the ids a step hands out carry exactly the counter values the
\* step passed through (one increment per nextId call), and no two
\* transactions held, of one source or of several, of one workbook parsed
\* once or twice, carry the same id.
C2_IdsFreshAndDistinct ==
    [][LET stored == StoredTransactions(sources')
           issued == HeldIds(sources') \ HeldIds(sources)
       IN  /\ globalId' >= globalId
           /\ \A id \in HeldIds(sources') : id[2] >= 1 /\ id[2] <= globalId'
           /\ issued # {} => {id[2] : id \in issued} = (globalId + 1)..globalId'
           /\ \A i, j \in DOMAIN stored : i # j => stored[i].id # stored[j].id
      ]_vars

\* C2 witness: the same workbook was parsed twice and both sources hold
\* their transactions.
C2_Witness ==
    /\ Len(sources) = 2
    /\ sources[1].status = "ready"
    /\ sources[2].status = "ready"
    /\ sources[1].name = sources[2].name
    /\ Len(sources[1].transactions) = 2
    /\ Len(sources[2].transactions) = 2
    /\ globalId = 4

\* the display names of the reference entries of the ready sources, in the
\* order of the source list and, within a source, of its entries
ReadyEntryNames ==
    LET ready == readySources(sources)
        names == flat([i \in DOMAIN ready |->
                        [j \in DOMAIN ready[i].counterparties |->
                            trim(ready[i].counterparties[j].name)]])
    IN  SelectSeq(names, LAMBDA n : n # <<>>)

\* the key a raw or display value normalizes to
NormalizedKeyOf(value) == normalizeCounterpartyForMatch(cleanCounterparty(trim(value)))

\* the stored transactions getAllTransactions exposes, before resolution
StoredExposed ==
    LET ready == readySources(sources)
    IN  flat([i \in DOMAIN ready |->
                SelectSeq(ready[i].transactions,
                          LAMBDA t : t.sheet \in getSelectedSheetNames(sources))])

\* the ready sources, by position in the ready list, that hold an entry
\* whose normalized key is k
HoldersOf(k) ==
    {i \in DOMAIN readySources(sources) :
        \E j \in DOMAIN readySources(sources)[i].counterparties :
            NormalizedKeyOf(readySources(sources)[i].counterparties[j].name) = k}

\* the display name under which the source at position i holds the key k
DisplayNameIn(i, k) ==
    LET cps == readySources(sources)[i].counterparties
    IN  trim(cps[Min({j \in DOMAIN cps : NormalizedKeyOf(cps[j].name) = k})].name)

\* C5, as stated: when two ready sources hold an entry of the same
\* normalized key, a transaction whose raw counterparty normalizes to that
\* key is shown under the display name of the first of these sources.
C5_FirstSourceNameWins ==
    \A i \in DOMAIN StoredExposed :
        LET k == NormalizedKeyOf(StoredExposed[i].counterparty)
        IN  (k # <<>> /\ Cardinality(HoldersOf(k)) >= 2) =>
                getAllTransactions(sources)[i].counterparty = DisplayNameIn(Min(HoldersOf(k)), k)

\* C5, amended: a transaction whose raw counterparty normalizes to a key
\* that some reference entry of a ready source holds as its normalized,
\* prefix-stripped or org-stripped key is shown under the display name of
\* the first such entry, in the order of the source list and then of the
\* entries; the order of the transactions and the order in which the loads
\* settled play no part.
C5_FirstKeyHolderWins ==
    \A i \in DOMAIN StoredExposed :
        LET k == NormalizedKeyOf(StoredExposed[i].counterparty)
            holders == {n \in DOMAIN ReadyEntryNames : k \in ExactKeysOf(ReadyEntryNames[n])}
        IN  (k # <<>> /\ holders # {}) =>
                getAllTransactions(sources)[i].counterparty = ReadyEntryNames[Min(holders)]

\* C5 witness: two ready sources hold the key ip petrov under different
\* letter case, the one listed second settled first (it holds the lower
\* ids), and its transaction is shown under the name of the one listed first.
C5_Witness ==
    /\ Len(sources) = 2
    /\ sources[1].status = "ready"
    /\ sources[2].status = "ready"
    /\ [name |-> <<"I", "P", " ", "P", "e", "t", "r", "o", "v">>] \in Range(sources[1].counterparties)
    /\ [name |-> <<"i", "p", " ", "p", "e", "t", "r", "o", "v">>] \in Range(sources[2].counterparties)
    /\ sources[2].transactions[1].id[2] < sources[1].transactions[1].id[2]
    /\ \E i \in DOMAIN StoredExposed :
          /\ StoredExposed[i].source = sources[2].name
          /\ StoredExposed[i].counterparty = <<"i", "p", " ", "P", "e", "t", "r", "o", "v">>
          /\ getAllTransactions(sources)[i].counterparty = <<"I", "P", " ", "P", "e", "t", "r", "o", "v">>

\* the dictionary of the counterparties of exactly the ready sources, in
\* the order of the source list
DictionaryOfReady ==
    addCounterparties(emptyDictionary,
                      flat([i \in DOMAIN readySources(sources) |->
                               readySources(sources)[i].counterparties]))

\* the stored transactions of the ready sources that carry the id
StoredWithId(id) ==
    SelectSeq(StoredTransactions(readySources(sources)), LAMBDA t : t.id = id)

\* the sources of the next state that were ready and are still listed keep
\* their stored transactions
StoredKept ==
    \A i \in DOMAIN sources : \A j \in DOMAIN sources' :
        (sources[i].id = sources'[j].id /\ sources[i].status = "ready") =>
            sources'[j].transactions = sources[i].transactions

Settled == pending \ pending'

\* the positions in the list of the source of a load
ListedAt(srcs, id) == {i \in DOMAIN srcs : srcs[i].id = id}

\* the step is the failure of the load p of a source still listed
FailedStep(p) ==
    /\ p \in Settled
    /\ \E i \in ListedAt(sources, p.id) : sources'[i].status = "error"

\* C16: a load whose loader throws fails; when a load fails, its source,
\* if still listed, goes from loading to error with a non-empty message
\* and stays without sheets, transactions, articles and counterparties,
\* and every other source of the list is left as it was; a source in
\* error contributes no transaction and no dictionary entry.
C16_FailureIsPerSource ==
    /\ [][\A p \in Settled :
            /\ Len(sources') = Len(sources)
            /\ (p.file.fault # <<>> /\ ListedAt(sources, p.id) # {}) => FailedStep(p)
            /\ FailedStep(p) =>
                  \A i \in DOMAIN sources :
                      IF sources[i].id = p.id
                      THEN /\ sources[i].status = "loading"
                           /\ sources'[i].status = "error"
                           /\ sources'[i].error # <<>>
                           /\ sources'[i].transactions = <<>>
                           /\ sources'[i].counterparties = <<>>
                           /\ sources'[i].articles = <<>>
                           /\ sources'[i].sheets = <<>>
                      ELSE sources'[i] = sources[i]
       ]_vars
    /\ [](/\ getAllTransactions(sources) =
               getAllTransactions(SelectSeq(sources, LAMBDA s : s.status # "error"))
          /\ buildCounterpartyDictionary(sources) =
               buildCounterpartyDictionary(SelectSeq(sources, LAMBDA s : s.status # "error")))

\* C16 witness: a.xlsx is ready with its two transactions exposed and the
\* Google Sheet listed after it is in error with the message of its loader.
C16_Witness ==
    /\ Len(sources) = 2
    /\ sources[1].status = "ready"
    /\ sources[1].name = <<"lata", ".", "latx", "latl", "lats", "latx">>
    /\ Len(getAllTransactions(sources)) = 2
    /\ sources[2].type = "google_sheets"
    /\ sources[2].status = "error"
    /\ sources[2].error = <<"O", "sh", "i", "b", "k", "a", " ", "latC", "latO", "latR", "latS", ".", " ", "P", "o", "p", "r", "o", "b", "u", "j", "t", "e", " ", "s", "k", "a", "ch", "a", "t", "ss", " ", "f", "a", "j", "l", " ", "k", "a", "k", " ", ".", "latx", "latl", "lats", "latx", " ", "i", " ", "z", "a", "g", "r", "u", "z", "i", "t", "ss", " ", "v", "r", "u", "ch", "n", "u", "yu", ".">>
    /\ pending = {}

\* the loads that settle in the step for a workbook XLSX.read accepts and
\* none of whose sheets holds a row
EmptyLoads ==
    {p \in Settled :
        /\ p.file.fault = <<>>
        /\ \A n \in DOMAIN p.file.workbook.Sheets : p.file.workbook.Sheets[n] = <<>>}

\* C17, as stated: when the load of a workbook none of whose sheets holds a
\* row settles, its source, if still listed, ends in error with a message
\* and not in ready.
C17_NoSheetsIsError ==
    [][\A p \in EmptyLoads : \A i \in ListedAt(sources, p.id) :
          /\ sources'[i].status = "error"
          /\ sources'[i].error # <<>>
      ]_vars

\* the ids of the transactions exposed
ExposedIds == {getAllTransactions(sources)[k].id : k \in DOMAIN getAllTransactions(sources)}

\* C18, as stated: no transaction that a ready source stores from one of
\* its sheets left unchecked is exposed, whatever other sources are loaded.
C18_UncheckedSheetExcluded ==
    \A i \in DOMAIN sources :
        sources[i].status = "ready" =>
            \A j \in DOMAIN sources[i].sheets :
                ~sources[i].sheets[j].selected =>
                    \A k \in DOMAIN sources[i].transactions :
                        sources[i].transactions[k].sheet = sources[i].sheets[j].name =>
                            sources[i].transactions[k].id \notin ExposedIds

\* the ids of the sources listed
ListedIds(srcs) == {srcs[i].id : i \in DOMAIN srcs}

\* the loads under way whose source has been removed
Orphans == {p \in pending : p.id \notin ListedIds(sources)}

\* C28: if a source is removed while its load is still pending, the later
\* completion of that load, successful or failed, changes nothing: the
\* removed source never reappears and no other source is modified.
C28_RemovedStaysRemoved ==
    [][/\ \A p \in Orphans : p.id \notin ListedIds(sources')
       /\ (\E p \in Orphans : p \notin pending') => sources' = sources]_vars

\* the load of a removed source is under way while another source is ready
C28_Witness ==
    /\ Orphans # {}
    /\ \E i \in DOMAIN sources : sources[i].status = "ready" /\ sources[i].transactions # <<>>

\* no load of a removed source ever completes
OrphanNeverCompletes == [][\A p \in Orphans : p \in pending']_vars

\* the article list parseWorkbook returns for the workbook of the file name
OwnArticles(name) ==
    parseWorkbook((CHOOSE f \in ArticleFiles : f.name = name).workbook, name, 0, 0).articles

\* every transaction listed has the direction its article has in the
\* article list of its own workbook
DirectionsByOwnArticles ==
    \A i \in DOMAIN sources :
        \A k \in DOMAIN sources[i].transactions :
            sources[i].transactions[k].direction
                = getDirection(sources[i].transactions[k].article, OwnArticles(sources[i].name))

\* a step leaves the transactions of every source that stays listed as
\* they were, once they have been extracted
DirectionsKept ==
    \A i \in DOMAIN sources :
        \A j \in DOMAIN sources' :
            (sources[i].id = sources'[j].id /\ sources[i].status = "ready")
                => sources'[j].transactions = sources[i].transactions

\* C30: parseWorkbook parses every reference sheet before it extracts any
\* journal, so the direction of every transaction is inferred with the
\* article list of the same workbook whatever the position of the
\* reference sheet; articles of other loaded sources are never consulted,
\* and a later change of any source's articles (manual override, another
\* source loaded or removed) leaves the direction of already extracted
\* transactions unchanged.
C30_DirectionFromOwnArticles == []DirectionsByOwnArticles /\ [][DirectionsKept]_vars

\* the cash journal ahead of its reference sheet gave Arenda the direction
\* of that sheet, another source lists Arenda as a disbursement, and the
\* article list of the source has been replaced since
C30_Witness ==
    \E i, j \in DOMAIN sources :
        /\ sources[i].status = "ready"
        /\ sources[i].name = <<"latd", ".", "latx", "latl", "lats", "latx">>
        /\ sources[i].articles # OwnArticles(sources[i].name)
        /\ \E k \in DOMAIN sources[i].transactions :
              /\ sources[i].transactions[k].article = Arenda
              /\ sources[i].transactions[k].direction = "in"
              /\ getDirection(Arenda, sources[i].articles) = "out"
        /\ sources[j].status = "ready"
        /\ getDirection(Arenda, sources[j].articles) = "out"
        /\ \E k \in DOMAIN sources[j].transactions :
              /\ sources[j].transactions[k].article = Dohod
              /\ sources[j].transactions[k].direction = "out"

====
